---------------------------- MODULE Spec2Model ----------------------------
(***************************************************************************)
(* The checkout pipeline of django-hq-warehouse                            *)
(* (src/hq_warehouse/command_line.py) over the warehouse schema of         *)
(* src/hq_warehouse/models.py.                                             *)
(*                                                                         *)
(* Staging values are raw text: a text is a sequence of one-character      *)
(* strings, so that the regular expressions and the conversions of the     *)
(* checkout functions are computed on the characters.  Python's None is    *)
(* the empty sequence, which is falsy like None in every test the code     *)
(* makes on a text.                                                        *)
(***************************************************************************)
EXTENDS Integers, Sequences, FiniteSets, TLC

None == <<>>

(***************************************************************************)
(* Characters and regular expressions                                      *)
(***************************************************************************)
Digit == {"0", "1", "2", "3", "4", "5", "6", "7", "8", "9"}

Upper == {"A", "B", "C", "D", "E", "F", "G", "H", "I", "J", "K", "L", "M",
          "N", "O", "P", "Q", "R", "S", "T", "U", "V", "W", "X", "Y", "Z"}

Lower == {"a", "b", "c", "d", "e", "f", "g", "h", "i", "j", "k", "l", "m",
          "n", "o", "p", "q", "r", "s", "t", "u", "v", "w", "x", "y", "z"}

Blank == {" ", "\t", "\n"}

DigitVal(c) ==
  CASE c = "0" -> 0 [] c = "1" -> 1 [] c = "2" -> 2 [] c = "3" -> 3
    [] c = "4" -> 4 [] c = "5" -> 5 [] c = "6" -> 6 [] c = "7" -> 7
    [] c = "8" -> 8 [] c = "9" -> 9

DigitChar(n) ==
  CASE n = 0 -> "0" [] n = 1 -> "1" [] n = 2 -> "2" [] n = 3 -> "3"
    [] n = 4 -> "4" [] n = 5 -> "5" [] n = 6 -> "6" [] n = 7 -> "7"
    [] n = 8 -> "8" [] n = 9 -> "9"

AllIn(s, from, to, set) == \A i \in from..to : s[i] \in set

\* Without re.MULTILINE a final $ also matches just before one trailing
\* newline; the newline is not part of the matched text.
Chomp(s) ==
  IF Len(s) > 0 /\ s[Len(s)] = "\n" THEN SubSeq(s, 1, Len(s) - 1) ELSE s

\* ^[A-Z]{3}$
IsCode(s) == Len(s) = 3 /\ AllIn(s, 1, 3, Upper)

\* ^\d+$
IsDigits(s) == Len(s) >= 1 /\ AllIn(s, 1, Len(s), Digit)

\* ^(\d+|\d+\.\d+)$
IsNumber(s) ==
  \/ IsDigits(s)
  \/ \E p \in 2..(Len(s) - 1) :
       /\ s[p] = "."
       /\ AllIn(s, 1, p - 1, Digit)
       /\ AllIn(s, p + 1, Len(s), Digit)

\* ^-?\d$
IsFlagDigit(s) ==
  \/ Len(s) = 1 /\ s[1] \in Digit
  \/ Len(s) = 2 /\ s[1] = "-" /\ s[2] \in Digit

\* ^-?\d+$
IsSignedInt(s) ==
  \/ IsDigits(s)
  \/ Len(s) >= 2 /\ s[1] = "-" /\ AllIn(s, 2, Len(s), Digit)

\* ^\d{4}-\d{2}-\d{2}$
IsDate(s) ==
  /\ Len(s) = 10
  /\ AllIn(s, 1, 4, Digit) /\ s[5] = "-"
  /\ AllIn(s, 6, 7, Digit) /\ s[8] = "-"
  /\ AllIn(s, 9, 10, Digit)

\* ^\d{4}-\d{2}-\d{2} \d{2}:\d{2}:\d{2}$
IsTimestamp(s) ==
  /\ Len(s) = 19
  /\ IsDate(SubSeq(s, 1, 10)) /\ s[11] = " "
  /\ AllIn(s, 12, 13, Digit) /\ s[14] = ":"
  /\ AllIn(s, 15, 16, Digit) /\ s[17] = ":"
  /\ AllIn(s, 18, 19, Digit)

\* The first alphanumeric character of s, for the unanchored [A-Za-z0-9].
FirstAlnum(s) ==
  LET hits == {i \in 1..Len(s) : s[i] \in Upper \cup Lower \cup Digit}
  IN  IF hits = {} THEN None
      ELSE <<s[CHOOSE i \in hits : \A j \in hits : i <= j]>>

\* match_pass(data, regex): the matched text, or None.
match_pass(data, regex) ==
  LET body == Chomp(data)
      full(ok) == IF ok THEN body ELSE None
  IN  CASE regex = "code"      -> full(IsCode(body))
        [] regex = "alnum"     -> FirstAlnum(data)
        [] regex = "digits"    -> full(IsDigits(body))
        [] regex = "number"    -> full(IsNumber(body))
        [] regex = "flagdigit" -> full(IsFlagDigit(body))
        [] regex = "signedint" -> full(IsSignedInt(body))
        [] regex = "date"      -> full(IsDate(body))
        [] regex = "timestamp" -> full(IsTimestamp(body))

(***************************************************************************)
(* Conversions: int(), float(), str.strip(), strptime() and strftime()     *)
(***************************************************************************)
RECURSIVE int(_)
int(s) ==
  IF Len(s) = 0 THEN 0
  ELSE IF s[1] = "-" THEN 0 - int(Tail(s))
  ELSE 10 * int(SubSeq(s, 1, Len(s) - 1)) + DigitVal(s[Len(s)])

\* Numbers are kept in thousandths; the inputs have at most three decimals.
Scale == 1000

number(s) ==
  LET dots == {p \in 1..Len(s) : s[p] = "."}
  IN  IF dots = {} THEN int(s) * Scale
      ELSE LET p    == CHOOSE q \in dots : TRUE
               frac == SubSeq(s, p + 1, Len(s))
               kept == IF Len(frac) > 3 THEN SubSeq(frac, 1, 3) ELSE frac
               pad  == CASE Len(kept) = 1 -> 100
                         [] Len(kept) = 2 -> 10
                         [] OTHER         -> 1
           IN  int(SubSeq(s, 1, p - 1)) * Scale + int(kept) * pad

\* A number carries its Python type: float(data) is a float, and what the
\* store returns for a DecimalField is a Decimal.
float(s) == [type |-> "float", v |-> number(s)]

Decimal(x) == [type |-> "Decimal", v |-> x.v]

RECURSIVE Strip(_)
Strip(s) ==
  IF Len(s) = 0 THEN s
  ELSE IF s[1] \in Blank THEN Strip(Tail(s))
  ELSE IF s[Len(s)] \in Blank THEN Strip(SubSeq(s, 1, Len(s) - 1))
  ELSE s

DaysIn(y, m) ==
  IF m \in {4, 6, 9, 11} THEN 30
  ELSE IF m = 2
       THEN IF (y % 4 = 0 /\ y % 100 # 0) \/ y % 400 = 0 THEN 29 ELSE 28
       ELSE 31

\* A date is the number yyyymmdd, which orders dates as the calendar does.
\* strptime raises ValueError on a text that names no day of the calendar.
DateOk(s) ==
  LET y == int(SubSeq(s, 1, 4))
      m == int(SubSeq(s, 6, 7))
      d == int(SubSeq(s, 9, 10))
  IN  y >= 1 /\ m \in 1..12 /\ d \in 1..DaysIn(y, m)

strptime_date(s) ==
  int(SubSeq(s, 1, 4)) * 10000 + int(SubSeq(s, 6, 7)) * 100 + int(SubSeq(s, 9, 10))

TimeOk(s) ==
  /\ int(SubSeq(s, 12, 13)) \in 0..23
  /\ int(SubSeq(s, 15, 16)) \in 0..59
  /\ int(SubSeq(s, 18, 19)) \in 0..59

strptime_time(s) ==
  int(SubSeq(s, 12, 13)) * 10000 + int(SubSeq(s, 15, 16)) * 100 + int(SubSeq(s, 18, 19))

TwoDigits(n) == <<DigitChar(n \div 10), DigitChar(n % 10)>>

\* date.strftime('%Y-%m-%d'), for the four-digit years of the inputs.
strftime(dv) ==
  LET y == dv \div 10000
      m == (dv \div 100) % 100
      d == dv % 100
  IN  TwoDigits(y \div 100) \o TwoDigits(y % 100) \o <<"-">>
        \o TwoDigits(m) \o <<"-">> \o TwoDigits(d)

RECURSIVE str(_)
str(n) == IF n < 10 THEN <<DigitChar(n)>> ELSE str(n \div 10) \o <<DigitChar(n % 10)>>


RECURSIVE split(_, _)
\* s.split(sep): the parts of s between the occurrences of the character sep.
split(s, sep) ==
  LET hits == {i \in 1..Len(s) : s[i] = sep}
  IN  IF hits = {} THEN <<s>>
      ELSE LET p == CHOOSE i \in hits : \A j \in hits : i <= j
           IN  <<SubSeq(s, 1, p - 1)>> \o split(SubSeq(s, p + 1, Len(s)), sep)

RECURSIVE join(_, _)
\* sep.join(parts), for parts and a separator that are kept whole: the
\* text is the sequence of the parts with the separator between them.
join(parts, sep) ==
  IF Len(parts) = 0 THEN <<>>
  ELSE IF Len(parts) = 1 THEN <<parts[1]>>
  ELSE <<parts[1], sep>> \o join(Tail(parts), sep)

(***************************************************************************)
(* The warehouse schema (models.py).  A table is the sequence of its rows  *)
(* in insertion order and a row's id is its position: ids are assigned by  *)
(* the store in increasing order and no row is ever deleted.  A row holds  *)
(* the keyword parameters the checkout passes to the model's constructor.  *)
(***************************************************************************)
Models == {"Currency", "Forex", "ValidOffer", "InvalidOffer"}

\* Meta.unique_together of each model, normalised to a list of constraints.
unique_together(model) ==
  CASE model = "Currency"     -> <<>>
    [] model = "Forex"        -> <<>>
    [] model = "ValidOffer"   ->
         << <<"hotel_id", "breakfast_included", "valid_from", "valid_to">> >>
    [] model = "InvalidOffer" ->
         << <<"hotel_id", "breakfast_included", "valid_from", "valid_to">> >>

\* The fields declared with unique=True: no model declares one.
unique_fields(model) == <<>>

\* The offer tables' constraint is declared on valid_from and valid_to,
\* which the schema documents as the check-in and the check-out; the
\* checkout passes them under the keys checkin_date and checkout_date.
column(name) ==
  CASE name = "valid_from" -> "checkin_date"
    [] name = "valid_to"   -> "checkout_date"
    [] OTHER               -> name

\* max_digits - decimal_places of the DecimalFields: the integer digits a
\* value may have.
RateIntDigits == 3
PriceUsdIntDigits == 6
OriginalPriceIntDigits == 5

RECURSIVE Pow10(_)
Pow10(n) == IF n = 0 THEN 1 ELSE 10 * Pow10(n - 1)

\* The decimal fields of a model with the integer digits each allows.
decimal_fields(model) ==
  CASE model = "Currency" -> {}
    [] model = "Forex"    -> {<<"rate", RateIntDigits>>}
    [] OTHER              -> {<<"price_usd", PriceUsdIntDigits>>,
                              <<"original_price", OriginalPriceIntDigits>>}

\* The world a checkout function reads and writes: the warehouse tables,
\* the three module-level caches, and the record of the forex lookups made
\* during the current checkout.
table(w, model) ==
  CASE model = "Currency"     -> w.Currency
    [] model = "Forex"        -> w.Forex
    [] model = "ValidOffer"   -> w.ValidOffer
    [] model = "InvalidOffer" -> w.InvalidOffer

with_table(w, model, rows) ==
  CASE model = "Currency"     -> [w EXCEPT !.Currency = rows]
    [] model = "Forex"        -> [w EXCEPT !.Forex = rows]
    [] model = "ValidOffer"   -> [w EXCEPT !.ValidOffer = rows]
    [] model = "InvalidOffer" -> [w EXCEPT !.InvalidOffer = rows]

\* The rows of a table that agree with params on every key of params.
matching(rows, params) ==
  {i \in 1..Len(rows) :
     \A k \in DOMAIN params : k \in DOMAIN rows[i] /\ rows[i][k] = params[k]}

\* A value a function returns: its result, the world after it, and the
\* exception it raised ("" when it returned normally).
Ret(ret, w) == [ret |-> ret, w |-> w, exc |-> ""]

Raise(exc, w) == [ret |-> None, w |-> w, exc |-> exc]


(***************************************************************************)
(* The store: constructing, saving and fetching rows                       *)
(***************************************************************************)
ForeignKeys == {"currency_from", "currency_to", "original_currency"}

DecimalNames == {"rate", "price_usd", "original_price"}

\* The columns a row must have (NOT NULL without a default).
required(model) ==
  CASE model = "Currency" -> {"batch_id", "origin_id"}
    [] model = "Forex"    ->
         {"batch_id", "origin_id", "currency_from", "currency_to",
          "date_valid", "rate"}
    [] OTHER              ->
         {"batch_id", "origin_id", "hotel_id", "price_usd", "original_price",
          "original_currency", "breakfast_included"}

\* What the store keeps of a parameter: the id of a referenced row, a
\* Decimal for a DecimalField, and the number for the integer hotel_id.
to_store(k, val) ==
  IF k \in ForeignKeys THEN val.id
  ELSE IF k \in DecimalNames THEN Decimal(val)
  ELSE IF k = "hotel_id" THEN int(val)
  ELSE val

\* The object model(**wparams) is after save(): its attributes are the
\* parameters as passed (save() does not reload them), its foreign keys
\* are read through their ids, and its id is the one the store assigned.
fresh(wparams, id) ==
  [k \in DOMAIN wparams \cup {"id"} |->
     IF k = "id" THEN id
     ELSE IF k \in ForeignKeys THEN wparams[k].id
     ELSE wparams[k]]

stored(wparams, id) ==
  [k \in DOMAIN wparams \cup {"id"} |->
     IF k = "id" THEN id ELSE to_store(k, wparams[k])]

\* A number does not fit its DecimalField: saving it raises
\* decimal.InvalidOperation.
overflows(model, wparams) ==
  \E f \in decimal_fields(model) :
    /\ f[1] \in DOMAIN wparams
    /\ wparams[f[1]].v >= Pow10(f[2]) * Scale

\* The insert breaks one of the unique constraints uniques of the table.
breaks(uniques, wparams, rows) ==
  \E c \in 1..Len(uniques) : \E i \in 1..Len(rows) :
    \A n \in 1..Len(uniques[c]) :
      /\ column(uniques[c][n]) \in DOMAIN wparams
      /\ column(uniques[c][n]) \in DOMAIN rows[i]
      /\ rows[i][column(uniques[c][n])]
           = to_store(column(uniques[c][n]), wparams[column(uniques[c][n])])

\* The insert breaks a unique constraint the model declares.
conflicts(model, wparams, rows) ==
  breaks(unique_together(model) \o unique_fields(model), wparams, rows)

dict_with_fields(org_dict, fields) ==
  IF \A n \in 1..Len(fields) : fields[n] \in DOMAIN org_dict
  THEN [f \in {fields[n] : n \in 1..Len(fields)} |-> org_dict[f]]
  ELSE <<>>

\* model.objects.get(**params): the row, DoesNotExist or
\* MultipleObjectsReturned.
objects_get(rows, params) ==
  LET m == matching(rows, params)
  IN  IF m = {} THEN [row |-> None, exc |-> "DoesNotExist"]
      ELSE IF Cardinality(m) > 1
           THEN [row |-> None, exc |-> "MultipleObjectsReturned"]
           ELSE [row |-> rows[CHOOSE i \in m : TRUE], exc |-> ""]

RECURSIVE dedup_skipping(_, _, _, _)
\* The loop over the unique constraints with `continue` in the place of
\* line 130: a constraint without all its fields is passed over.
dedup_skipping(model, wparams, w, uniques) ==
  IF Len(uniques) = 0 THEN Ret(None, w)
  ELSE LET uniq_params == dict_with_fields(wparams, Head(uniques))
       IN  IF DOMAIN uniq_params = {}
           THEN dedup_skipping(model, wparams, w, Tail(uniques))
           ELSE LET got == objects_get(table(w, model),
                             [k \in DOMAIN uniq_params |->
                                to_store(k, uniq_params[k])])
                    wl  == [w EXCEPT !.lookups = @ + 1]
                IN  IF got.exc = "" THEN Ret(got.row, wl)
                    ELSE IF got.exc = "DoesNotExist"
                         THEN dedup_skipping(model, wparams, wl, Tail(uniques))
                         ELSE Raise(got.exc, wl)

RECURSIVE dedup_lookup(_, _, _, _)
\* The loop of save_to_warehouse over the unique constraints; the world
\* counts the lookups it makes.
dedup_lookup(model, wparams, w, uniques) ==
  IF Len(uniques) = 0 THEN Ret(None, w)
  ELSE LET uniq_params == dict_with_fields(wparams, Head(uniques))
       IN  IF DOMAIN uniq_params = {} THEN Ret(None, w)
           ELSE LET got == objects_get(table(w, model),
                             [k \in DOMAIN uniq_params |->
                                to_store(k, uniq_params[k])])
                    wl  == [w EXCEPT !.lookups = @ + 1]
                IN  IF got.exc = "" THEN Ret(got.row, wl)
                    ELSE IF got.exc = "DoesNotExist"
                         THEN dedup_lookup(model, wparams, wl, Tail(uniques))
                         ELSE Raise(got.exc, wl)

\* save_to_warehouse where any integrity error other than a uniqueness
\* conflict returns None at once.
save_strict(model, uniques, wparams, w) ==
  IF overflows(model, wparams) THEN Ret(None, w)
  ELSE IF ~(required(model) \subseteq DOMAIN wparams) THEN Ret(None, w)
  ELSE IF ~breaks(uniques, wparams, table(w, model))
       THEN Ret(fresh(wparams, Len(table(w, model)) + 1),
                with_table(w, model,
                           Append(table(w, model),
                                  stored(wparams, Len(table(w, model)) + 1))))
       ELSE dedup_lookup(model, wparams, w, uniques)

\* save_to_warehouse for a model whose unique constraints are uniques.
save_with(model, uniques, wparams, w) ==
  IF overflows(model, wparams) THEN Ret(None, w)
  ELSE IF /\ required(model) \subseteq DOMAIN wparams
          /\ ~breaks(uniques, wparams, table(w, model))
       THEN Ret(fresh(wparams, Len(table(w, model)) + 1),
                with_table(w, model,
                           Append(table(w, model),
                                  stored(wparams, Len(table(w, model)) + 1))))
       ELSE dedup_lookup(model, wparams, w, uniques)

save_to_warehouse(model, wparams, w) ==
  save_with(model, unique_together(model) \o unique_fields(model), wparams, w)

(***************************************************************************)
(* The staging record's status and the decision on it                      *)
(***************************************************************************)
\* stage_error that joins the list of failed fields even when it is empty.
stage_error_joined(object, fields_in_error) ==
  [object EXCEPT
     !.fields_in_error = join(fields_in_error, ", "),
     !.in_error = TRUE,
     !.processed = TRUE]

stage_error(object, fields_in_error) ==
  [object EXCEPT
     !.fields_in_error = IF Len(fields_in_error) > 0
                         THEN join(fields_in_error, ", ")
                         ELSE <<"Validation Errors">>,
     !.in_error = TRUE,
     !.processed = TRUE]

\* Lines 148-156 without line 149: a saved record keeps its in_error.
saved_status_stale(sobj, saved, fields_in_error) ==
  IF saved.exc # "" THEN saved @@ [sobj |-> sobj]
  ELSE IF saved.ret # None
       THEN saved @@ [sobj |-> [sobj EXCEPT !.fields_in_error = None,
                                            !.processed = TRUE]]
       ELSE saved @@ [sobj |-> stage_error(sobj, fields_in_error)]

\* Lines 148-156: the staging record after the attempt to save.
\* The status after save_to_warehouse with a record marked clean whether
\* a row came back or not.
saved_status_clean(sobj, saved, fields_in_error) ==
  IF saved.exc # "" THEN saved @@ [sobj |-> sobj]
  ELSE saved @@ [sobj |-> [sobj EXCEPT !.in_error = FALSE,
                                       !.fields_in_error = None,
                                       !.processed = TRUE]]

saved_status(sobj, saved, fields_in_error) ==
  IF saved.exc # "" THEN saved @@ [sobj |-> sobj]
  ELSE IF saved.ret # None
       THEN saved @@ [sobj |-> [sobj EXCEPT !.in_error = FALSE,
                                            !.fields_in_error = None,
                                            !.processed = TRUE]]
       ELSE saved @@ [sobj |-> stage_error(sobj, fields_in_error)]

\* Besides the result and the world, check_finalise returns the staging
\* record as it saved it.
check_finalise(sobj, model, wparams, fields_in_error, w) ==
  IF Len(fields_in_error) > 0
  THEN Ret(None, w) @@ [sobj |-> stage_error(sobj, fields_in_error)]
  ELSE saved_status(sobj, save_to_warehouse(model, wparams, w), fields_in_error)

(***************************************************************************)
(* The dimension caches CURRENCY, FOREX and CURRENCY_USD                   *)
(***************************************************************************)
\* add_currency_cache where the last USD currency seen becomes the base.
add_currency_cache_last(currency, w) ==
  [w EXCEPT
     !.CURRENCY = (currency.id :> currency) @@ w.CURRENCY,
     !.CURRENCY_USD = IF <<"U", "S", "D">> = currency.code
                      THEN currency
                      ELSE w.CURRENCY_USD]

add_currency_cache(currency, w) ==
  [w EXCEPT
     !.CURRENCY = (currency.id :> currency) @@ w.CURRENCY,
     !.CURRENCY_USD = IF w.CURRENCY_USD = None /\ <<"U", "S", "D">> = currency.code
                      THEN currency
                      ELSE w.CURRENCY_USD]

\* get_currency that stores a currency for an id the store does not have.
get_currency_creating(id, w) ==
  IF id \in DOMAIN w.CURRENCY THEN Ret(w.CURRENCY[id], w)
  ELSE IF objects_get(w.Currency, [id |-> id]).exc # ""
       THEN Ret(None, [w EXCEPT !.Currency =
                         Append(@, [id |-> Len(w.Currency) + 1])])
       ELSE Ret(objects_get(w.Currency, [id |-> id]).row,
                add_currency_cache(objects_get(w.Currency, [id |-> id]).row, w))

get_currency(id, w) ==
  IF id \in DOMAIN w.CURRENCY THEN Ret(w.CURRENCY[id], w)
  ELSE LET got == objects_get(w.Currency, [id |-> id])
       IN  IF got.exc # "" THEN Ret(None, w)
           ELSE Ret(got.row, add_currency_cache(got.row, w))

forex_key(from_id, to_id, date_valid) ==
  str(from_id) \o <<":">> \o str(to_id) \o <<":">> \o strftime(date_valid)

add_forex_cache(forex, w) ==
  LET key == forex_key(forex.currency_from, forex.currency_to, forex.date_valid)
  IN  [w EXCEPT !.FOREX = (key :> forex) @@ w.FOREX]

\* The query with order_by('date_valid'), the ascending order: a row of
\* the pair with the least date_valid.
oldest_forex(rows, cf, ct, tie) ==
  LET pair == IF cf = None \/ ct = None THEN {}
              ELSE matching(rows, [currency_from |-> cf.id, currency_to |-> ct.id])
      low  == {i \in pair : \A j \in pair : rows[i].date_valid <= rows[j].date_valid}
  IN  IF pair = {} THEN None
      ELSE IF tie = "first"
           THEN rows[CHOOSE i \in low : \A j \in low : i <= j]
           ELSE rows[CHOOSE i \in low : \A j \in low : j <= i]

\* Forex.objects.filter(currency_from=cf, currency_to=ct)
\*   .order_by('-date_valid').first(): a row of the pair with the greatest
\* date_valid, or None.  Among rows of the same date the store returns
\* any one; tie says which (the one inserted first or the one inserted
\* last).
latest_forex(rows, cf, ct, tie) ==
  LET pair == IF cf = None \/ ct = None THEN {}
              ELSE matching(rows, [currency_from |-> cf.id, currency_to |-> ct.id])
      top  == {i \in pair : \A j \in pair : rows[j].date_valid <= rows[i].date_valid}
  IN  IF pair = {} THEN None
      ELSE IF tie = "first"
           THEN rows[CHOOSE i \in top : \A j \in top : i <= j]
           ELSE rows[CHOOSE i \in top : \A j \in top : j <= i]

\* Lines 204-220 of get_forex, with the two currencies fetched: the exact
\* query, whose result the second query always replaces, then the latest
\* row of the pair, which is cached when there is one.
forex_query(dv, cf, ct, w, tie) ==
  IF cf # None /\ ct # None /\
     Cardinality(matching(w.Forex, [currency_from |-> cf.id,
                                    currency_to |-> ct.id,
                                    date_valid |-> dv])) > 1
  THEN Raise("MultipleObjectsReturned", [w EXCEPT !.forex_queries = @ + 1])
  ELSE IF latest_forex(w.Forex, cf, ct, tie) # None
       THEN Ret(latest_forex(w.Forex, cf, ct, tie),
                add_forex_cache(latest_forex(w.Forex, cf, ct, tie),
                                [w EXCEPT !.forex_queries = @ + 2]))
       ELSE Ret(None, [w EXCEPT !.forex_queries = @ + 2])

\* Lines 202-203: the second currency and the date of the key.
forex_to(parts, cf, rct, tie) ==
  IF ~DateOk(parts[3]) THEN Raise("ValueError", rct.w)
  ELSE forex_query(strptime_date(parts[3]), cf, rct.ret, rct.w, tie)

\* Lines 200-201: the key's parts and its first currency.
forex_from(parts, rcf, tie) ==
  forex_to(parts, rcf.ret, get_currency(int(parts[2]), rcf.w), tie)

\* Lines 197-203: the cache, then the two currencies of the key.
forex_lookup(key, w, tie) ==
  IF key \in DOMAIN w.FOREX THEN Ret(w.FOREX[key], w)
  ELSE forex_from(split(key, ":"), get_currency(int(split(key, ":")[1]), w), tie)

\* What the world keeps of a call of get_forex: the key asked and the
\* forex returned.
observed(key, r) == [r EXCEPT !.w.asked = key, !.w.got = r.ret]

\* The world counts the calls of get_forex and the store queries they make
\* during the current checkout.
get_forex(key, w, tie) ==
  observed(key, forex_lookup(key, [w EXCEPT !.forex_calls = @ + 1], tie))

\* apnde(err_list, err)
apnde(err_list, err) ==
  IF \E n \in 1..Len(err_list) : err_list[n] = err
  THEN err_list
  ELSE Append(err_list, err)

RECURSIVE failed(_, _)
\* The error list after the checks of a checkout, in the order of the
\* code: each check is a field's name and whether its value passed.
failed(err_list, checks) ==
  IF Len(checks) = 0 THEN err_list
  ELSE failed(IF checks[1][2] THEN err_list ELSE apnde(err_list, checks[1][1]),
              Tail(checks))

(***************************************************************************)
(* The checkout functions.  Each returns its result (the warehouse object  *)
(* or None), the world after it, the exception that ended it, the staging  *)
(* record as saved, and the parameters and failed fields it had built.     *)
(***************************************************************************)
warehouse_start(stage_object, batch) ==
  [batch_id  |-> IF batch # None THEN batch.id ELSE stage_object.batch,
   origin_id |-> stage_object.id]

Outcome(r, sobj, wparams, fields_in_error) ==
  [ret |-> r.ret, w |-> r.w, exc |-> r.exc, sobj |-> sobj,
   wparams |-> wparams, fields_in_error |-> fields_in_error]

\* The end of checkout_currency and checkout_forex: the object that
\* check_finalise returned goes into its cache.
finalised(fin, wparams, fields_in_error, kind) ==
  IF fin.exc = "" /\ fin.ret # None
  THEN Outcome(Ret(fin.ret, IF kind = "currency"
                            THEN add_currency_cache(fin.ret, fin.w)
                            ELSE IF kind = "forex"
                                 THEN add_forex_cache(fin.ret, fin.w)
                                 ELSE fin.w),
               fin.sobj, wparams, fields_in_error)
  ELSE Outcome(fin, fin.sobj, wparams, fields_in_error)

currency_params(sobj, batch, code, name) ==
  warehouse_start(sobj, batch)
    @@ (IF code # None THEN "code" :> code ELSE <<>>)
    @@ (IF name # None THEN "name" :> Strip(sobj.currency_name) ELSE <<>>)

currency_checked(sobj, wparams, fields_in_error, w) ==
  finalised(check_finalise(sobj, "Currency", wparams, fields_in_error, w),
            wparams, fields_in_error, "currency")

\* checkout_currency with the code held to the pattern of the name.
checkout_currency_lenient(sobj, batch, w) ==
  currency_checked(
    sobj,
    currency_params(sobj, batch, match_pass(sobj.currency_code, "alnum"),
                    match_pass(sobj.currency_name, "alnum")),
    failed(<<>>,
      << <<"currency_code", match_pass(sobj.currency_code, "alnum") # None>>,
         <<"currency_name", match_pass(sobj.currency_name, "alnum") # None>> >>),
    w)

checkout_currency(sobj, batch, w) ==
  currency_checked(
    sobj,
    currency_params(sobj, batch, match_pass(sobj.currency_code, "code"),
                    match_pass(sobj.currency_name, "alnum")),
    failed(<<>>,
      << <<"currency_code", match_pass(sobj.currency_code, "code") # None>>,
         <<"currency_name", match_pass(sobj.currency_name, "alnum") # None>> >>),
    w)

\* A currency id field: get_currency(int(data)) when the text is digits.
\* The currency of a field taken on trust: any id of digits stands for a
\* currency, without a look at the cache or at the store.
currency_field_trusting(text, w) ==
  IF match_pass(text, "digits") # None
  THEN Ret([id |-> int(match_pass(text, "digits")), code |-> <<"X", "X", "X">>],
           w)
  ELSE Ret(None, w)

currency_field(text, w) ==
  IF match_pass(text, "digits") # None
  THEN get_currency(int(match_pass(text, "digits")), w)
  ELSE Ret(None, w)

forex_params(sobj, batch, cf, ct, date, rate) ==
  warehouse_start(sobj, batch)
    @@ (IF cf # None THEN "currency_from" :> cf ELSE <<>>)
    @@ (IF ct # None THEN "currency_to" :> ct ELSE <<>>)
    @@ (IF date # None THEN "date_valid" :> strptime_date(date) ELSE <<>>)
    @@ (IF rate # None THEN "rate" :> float(rate) ELSE <<>>)

forex_checked(sobj, wparams, fields_in_error, w) ==
  IF match_pass(sobj.date_valid, "date") # None
       /\ ~DateOk(match_pass(sobj.date_valid, "date"))
  THEN Outcome(Raise("ValueError", w), sobj, wparams, fields_in_error)
  ELSE finalised(check_finalise(sobj, "Forex", wparams, fields_in_error, w),
                 wparams, fields_in_error, "forex")

forex_secondary(sobj, batch, cf, sec) ==
  forex_checked(
    sobj,
    forex_params(sobj, batch, cf, sec.ret, match_pass(sobj.date_valid, "date"),
                 match_pass(sobj.currency_rate, "number")),
    failed(<<>>,
      << <<"primary_currency_id", cf # None>>,
         <<"secondary_currency_id", sec.ret # None>>,
         <<"date_valid", match_pass(sobj.date_valid, "date") # None>>,
         <<"currency_rate", match_pass(sobj.currency_rate, "number") # None>> >>),
    sec.w)

forex_primary(sobj, batch, pri) ==
  forex_secondary(sobj, batch, pri.ret,
                  currency_field(sobj.secondary_currency_id, pri.w))

checkout_forex(sobj, batch, w) ==
  forex_primary(sobj, batch, currency_field(sobj.primary_currency_id, w))

\* wparams.get(k)
get(wparams, k) == IF k \in DOMAIN wparams THEN wparams[k] ELSE None

\* strptime raises ValueError on one of the offer's dates or timestamps.
offer_bad_time(cin, cout, from, to) ==
  \/ cin # None /\ ~DateOk(cin)
  \/ cout # None /\ ~DateOk(cout)
  \/ from # None /\ ~(DateOk(from) /\ TimeOk(from))
  \/ to # None /\ ~(DateOk(to) /\ TimeOk(to))

price_ok(price) == price # None /\ 0 < float(price).v

offer_params(sobj, batch, hotel, price, curr, bfast, cin, cout, from, to) ==
  warehouse_start(sobj, batch)
    @@ (IF hotel # None THEN "hotel_id" :> hotel ELSE <<>>)
    @@ (IF price_ok(price) THEN "original_price" :> float(price) ELSE <<>>)
    @@ (IF curr # None THEN "original_currency" :> curr ELSE <<>>)
    @@ (IF bfast # None THEN "breakfast_included" :> (-1 # int(bfast)) ELSE <<>>)
    @@ (IF cin # None THEN "checkin_date" :> strptime_date(cin) ELSE <<>>)
    @@ (IF cout # None THEN "checkout_date" :> strptime_date(cout) ELSE <<>>)
    @@ (IF from # None
        THEN ("valid_from_date" :> strptime_date(from))
               @@ ("valid_from_time" :> strptime_time(from))
        ELSE <<>>)
    @@ (IF to # None
        THEN ("valid_to_date" :> strptime_date(to))
               @@ ("valid_to_time" :> strptime_time(to))
        ELSE <<>>)

offer_checks(hotel, price, curr, bfast, cin, cout, from, to) ==
  << <<"hotel_id", hotel # None>>,
     <<"selling_price", price_ok(price)>>,
     <<"currency_id", curr # None>>,
     <<"breakfast_included_flag", bfast # None>>,
     <<"checkin_date", cin # None>>,
     <<"checkout_date", cout # None>>,
     <<"offer_valid_from", from # None>>,
     <<"offer_valid_to", to # None>> >>

\* Lines 346-425 with the currency fetched: the fields of the offer.
offer_parsed(sobj, batch, curr, hotel, price, bfast, cin, cout, from, to) ==
  [wparams |-> offer_params(sobj, batch, hotel, price, curr.ret, bfast,
                            cin, cout, from, to),
   fields_in_error |-> failed(<<>>, offer_checks(hotel, price, curr.ret, bfast,
                                                 cin, cout, from, to)),
   w   |-> curr.w,
   exc |-> IF offer_bad_time(cin, cout, from, to) THEN "ValueError" ELSE ""]

offer_fields(sobj, batch, w) ==
  offer_parsed(sobj, batch, currency_field(sobj.currency_id, w),
               match_pass(sobj.hotel_id, "digits"),
               match_pass(sobj.selling_price, "number"),
               match_pass(sobj.breakfast_included_flag, "flagdigit"),
               match_pass(sobj.checkin_date, "date"),
               match_pass(sobj.checkout_date, "date"),
               match_pass(sobj.offer_valid_from, "timestamp"),
               match_pass(sobj.offer_valid_to, "timestamp"))

\* Lines 433-440: the base currency, from CURRENCY_USD or from the store.
base_currency(w) ==
  IF w.CURRENCY_USD # None THEN Ret(w.CURRENCY_USD, w)
  ELSE IF objects_get(w.Currency, [code |-> <<"U", "S", "D">>]).exc
            = "MultipleObjectsReturned"
       THEN Raise("MultipleObjectsReturned", w)
       ELSE Ret(objects_get(w.Currency, [code |-> <<"U", "S", "D">>]).row,
                [w EXCEPT !.CURRENCY_USD =
                   objects_get(w.Currency, [code |-> <<"U", "S", "D">>]).row])

\* Line 456: decimal.Decimal(org_p) * forex.rate
price_in_usd(org_p, rate) ==
  [type |-> "Decimal",
   v    |-> (org_p.v \div Scale) * rate.v + ((org_p.v % Scale) * rate.v) \div Scale]

Parsed(wparams, fields_in_error, w, exc) ==
  [wparams |-> wparams, fields_in_error |-> fields_in_error, w |-> w, exc |-> exc]

\* Lines 451-460 with a composite failure that marks the currency alone.
offer_usd_currency(wparams, fields_in_error, cur_f, fx) ==
  IF fx.exc # "" THEN Parsed(wparams, fields_in_error, fx.w, fx.exc)
  ELSE IF cur_f # None /\ fx.w.CURRENCY_USD = None
       THEN Parsed(wparams, fields_in_error, fx.w, "AttributeError")
  ELSE IF cur_f # None /\ fx.w.CURRENCY_USD.code = cur_f.code
       THEN Parsed(wparams @@ ("price_usd" :> get(wparams, "original_price")),
                   fields_in_error, fx.w, "")
  ELSE IF fx.ret # None
       THEN IF fx.ret.rate.type = "float"
            THEN Parsed(wparams, fields_in_error, fx.w, "TypeError")
            ELSE Parsed(wparams @@ ("price_usd" :>
                          price_in_usd(wparams["original_price"], fx.ret.rate)),
                        fields_in_error, fx.w, "")
  ELSE Parsed(wparams, apnde(fields_in_error, "currency_id"), fx.w, "")

\* Lines 451-460: the price in USD, or the three fields of the composite
\* failure.
offer_usd(wparams, fields_in_error, cur_f, fx) ==
  IF fx.exc # "" THEN Parsed(wparams, fields_in_error, fx.w, fx.exc)
  ELSE IF cur_f # None /\ fx.w.CURRENCY_USD = None
       THEN Parsed(wparams, fields_in_error, fx.w, "AttributeError")
  ELSE IF cur_f # None /\ fx.w.CURRENCY_USD.code = cur_f.code
       THEN Parsed(wparams @@ ("price_usd" :> get(wparams, "original_price")),
                   fields_in_error, fx.w, "")
  ELSE IF fx.ret # None
       THEN IF fx.ret.rate.type = "float"
            THEN Parsed(wparams, fields_in_error, fx.w, "TypeError")
            ELSE Parsed(wparams @@ ("price_usd" :>
                          price_in_usd(wparams["original_price"], fx.ret.rate)),
                        fields_in_error, fx.w, "")
  ELSE Parsed(wparams,
              apnde(apnde(apnde(fields_in_error, "currency_id"),
                          "selling_price"), "checkin_date"),
              fx.w, "")

\* Lines 441-450: the forex lookup, made when the base currency, the
\* offer's currency, its check-in date and its price are all there.
offer_forex(wparams, fields_in_error, base, tie) ==
  IF base.exc # "" THEN Parsed(wparams, fields_in_error, base.w, base.exc)
  ELSE offer_usd(wparams, fields_in_error, get(wparams, "original_currency"),
         IF /\ base.ret # None
            /\ "original_currency" \in DOMAIN wparams
            /\ "checkin_date" \in DOMAIN wparams
            /\ "original_price" \in DOMAIN wparams
         THEN get_forex(forex_key(wparams["original_currency"].id, base.ret.id,
                                  wparams["checkin_date"]),
                        base.w, tie)
         ELSE Ret(None, base.w))

offer_price(wparams, fields_in_error, w, tie) ==
  offer_forex(wparams, fields_in_error, base_currency(w), tie)

\* Lines 467-475: the destination table; Unbound when the flag does not
\* parse, which leaves the local variable offer_model unassigned.
Unbound == "unbound"

\* The destination with every offer whose flag parses sent to ValidOffer.
offer_model_valid(sobj) ==
  IF match_pass(sobj.valid_offer_flag, "signedint") = None THEN Unbound
  ELSE "ValidOffer"

offer_model(sobj) ==
  IF match_pass(sobj.valid_offer_flag, "signedint") = None THEN Unbound
  ELSE IF -1 = int(match_pass(sobj.valid_offer_flag, "signedint"))
       THEN "InvalidOffer"
       ELSE "ValidOffer"

\* Lines 467-478, with the destination table chosen.
offer_checked(sobj, model, wparams, fields_in_error, w) ==
  IF model = Unbound
  THEN Outcome(Raise("UnboundLocalError", w), sobj, wparams, fields_in_error)
  ELSE finalised(check_finalise(sobj, model, wparams, fields_in_error, w),
                 wparams, fields_in_error, "offer")

offer_priced(sobj, p) ==
  IF p.exc # ""
  THEN Outcome(Raise(p.exc, p.w), sobj, p.wparams, p.fields_in_error)
  ELSE offer_checked(sobj, offer_model(sobj),
         IF offer_model(sobj) = "ValidOffer"
         THEN p.wparams @@ ("invalid" :> FALSE) ELSE p.wparams,
         IF offer_model(sobj) = Unbound
         THEN apnde(p.fields_in_error, "valid_offer_flag")
         ELSE p.fields_in_error,
         p.w)

offer_parsed_then(sobj, f, tie) ==
  IF f.exc # ""
  THEN Outcome(Raise(f.exc, f.w), sobj, f.wparams, f.fields_in_error)
  ELSE offer_priced(sobj, offer_price(f.wparams, f.fields_in_error, f.w, tie))

checkout_offer(sobj, batch, w, tie) ==
  offer_parsed_then(sobj, offer_fields(sobj, batch, w), tie)

(***************************************************************************)
(* The staging area.  Its tables belong to the hq_stage application; the   *)
(* checkout reads the fields below and writes the four status fields.      *)
(* The staging area holds three currencies, two exchange rates and two     *)
(* offers in two batches: the clean records, or those with one field of    *)
(* one record changed to a value of Deviations, or with the two changes    *)
(* of a pair of Combined.                                                  *)
(***************************************************************************)
Status == [processed |-> FALSE, in_error |-> FALSE, fields_in_error |-> None,
           ignore |-> FALSE]

StageCurrency(id, batch, code, name) ==
  [id |-> id, batch |-> batch, currency_code |-> code, currency_name |-> name]
    @@ Status

StageExchangeRate(id, batch, pri, sec, date, rate) ==
  [id |-> id, batch |-> batch, primary_currency_id |-> pri,
   secondary_currency_id |-> sec, date_valid |-> date, currency_rate |-> rate]
    @@ Status

D0 == <<"2", "0", "1", "5", "-", "1", "2", "-", "3", "1">>
D1 == <<"2", "0", "1", "6", "-", "0", "1", "-", "0", "1">>
D2 == <<"2", "0", "1", "6", "-", "0", "1", "-", "0", "2">>
D3 == <<"2", "0", "1", "6", "-", "0", "1", "-", "0", "3">>
BadDay == <<"2", "0", "1", "6", "-", "0", "2", "-", "3", "1">>
NoDate == <<"1", "/", "1">>
Ts(date) == date \o <<" ", "1", "0", ":", "0", "0", ":", "0", "0">>
BadClock == D1 \o <<" ", "2", "5", ":", "0", "0", ":", "0", "0">>

StageOffer(id, batch, hotel, currency, checkin, flag) ==
  [id |-> id, batch |-> batch, hotel_id |-> hotel, selling_price |-> <<"1", "0">>,
   currency_id |-> currency, breakfast_included_flag |-> <<"1">>,
   checkin_date |-> checkin, checkout_date |-> D3,
   offer_valid_from |-> Ts(D0), offer_valid_to |-> Ts(D3),
   valid_offer_flag |-> flag]
    @@ Status

CleanCurrency ==
  <<StageCurrency(1, 1, <<"U", "S", "D">>, <<"D", "o", "l", "l", "a", "r">>),
    StageCurrency(2, 1, <<"E", "U", "R">>, <<" ", "E", "u", "r", "o", " ">>),
    StageCurrency(3, 1, <<"G", "B", "P">>, <<"P", "o", "u", "n", "d">>)>>

CleanExchangeRate ==
  <<StageExchangeRate(1, 1, <<"2">>, <<"1">>, D1, <<"2">>),
    StageExchangeRate(2, 1, <<"2">>, <<"1">>, D3, <<"1", ".", "5">>)>>

CleanOffer ==
  <<StageOffer(1, 1, <<"7">>, <<"2">>, D2, <<"1">>),
    StageOffer(2, 2, <<"8">>, <<"2">>, D1, <<"-", "1">>)>>

Batches == {1, 2}

Deviations ==
  {<<"currency", 1, "currency_code", c>> : c \in {<<"u", "s", "d">>, <<"C", "H", "F">>}}
    \cup {<<"currency", 1, "currency_name", <<" ", "-">> >>,
          <<"currency", 2, "currency_code", <<"U", "S", "D">>>>,
          <<"currency", 2, "in_error", TRUE>>,
          <<"currency", 3, "ignore", TRUE>>,
          <<"currency", 3, "currency_code", <<"u", "s", "d">>>>,
          <<"currency", 3, "currency_code", <<"G", "B", "P", "\n">>>>}
    \cup {<<"forex", 1, "primary_currency_id", v>> : v \in {<<"x">>, <<"9">>}}
    \cup {<<"forex", 1, "secondary_currency_id", <<"3">> >>}
    \cup {<<"forex", 1, "date_valid", v>> : v \in {D2, D3, BadDay, NoDate}}
    \cup {<<"forex", 1, "currency_rate", v>> :
            v \in {<<"x">>, <<"1", "0", "0", "0">>}}
    \cup {<<"forex", 2, "in_error", TRUE>>,
          <<"forex", 2, "primary_currency_id", <<"3">> >>}
    \cup {<<"offer", 1, "hotel_id", v>> : v \in {<<"h">>, <<"8">>}}
    \cup {<<"offer", 1, "selling_price", v>> :
            v \in {<<"0">>, <<"x">>, <<"2", ".", "5">>,
                   <<"9", "9", "9", "9", "9", "9">>}}
    \cup {<<"offer", 1, "currency_id", v>> :
            v \in {<<"1">>, <<"3">>, <<"9">>, <<"x">>}}
    \cup {<<"offer", 1, "breakfast_included_flag", v>> :
            v \in {<<"-", "1">>, <<"x">>}}
    \cup {<<"offer", 1, "checkin_date", v>> : v \in {D0, D1, D3, BadDay, NoDate}}
    \cup {<<"offer", 1, "checkout_date", v>> : v \in {BadDay, NoDate}}
    \cup {<<"offer", 1, "offer_valid_from", v>> : v \in {NoDate, BadClock}}
    \cup {<<"offer", 1, "offer_valid_to", v>> : v \in {NoDate}}
    \cup {<<"offer", 1, "valid_offer_flag", v>> : v \in {<<"-", "1">>, <<"x">>}}
    \cup {<<"offer", 1, "in_error", TRUE>>}
    \cup {<<"offer", 2, "currency_id", v>> : v \in {<<"1">>, <<"3">>}}
    \cup {<<"offer", 2, "valid_offer_flag", v>> : v \in {<<"x">>, <<"1">>}}
    \cup {<<"offer", 2, "in_error", TRUE>>,
          <<"offer", 2, "ignore", TRUE>>,
          <<"offer", 2, "hotel_id", <<"7">> >>}

\* Several deviations at once, for the cases that take several: a forex of
\* USD to USD with an offer in USD, two offers of one hotel and stay, and
\* two forex of USD to USD for one day with an offer in USD of that day,
\* two offers in error of which the first has a flag that is no number,
\* two offers in error of one hotel and stay, one valid and one not, and
\* a currency with neither a code nor a name.
Combined ==
  {<< <<"forex", 1, "primary_currency_id", <<"1">> >>,
      <<"offer", 1, "currency_id", <<"1">> >> >>,
   << <<"offer", 2, "hotel_id", <<"7">> >>,
      <<"offer", 2, "valid_offer_flag", <<"1">> >> >>,
   << <<"forex", 1, "primary_currency_id", <<"1">> >>,
      <<"forex", 2, "primary_currency_id", <<"1">> >>,
      <<"forex", 2, "date_valid", D1>>,
      <<"offer", 2, "currency_id", <<"1">> >> >>,
   << <<"offer", 1, "valid_offer_flag", <<"x">> >>,
      <<"offer", 1, "in_error", TRUE>>,
      <<"offer", 2, "in_error", TRUE>> >>,
   << <<"offer", 1, "in_error", TRUE>>,
      <<"offer", 2, "in_error", TRUE>>,
      <<"offer", 2, "hotel_id", <<"7">> >>,
      <<"offer", 2, "checkin_date", D2>> >>,
   << <<"currency", 1, "currency_code", <<"u", "s", "d">> >>,
      <<"currency", 1, "currency_name", <<" ", "-">> >> >>}

Scenarios == {<<>>} \cup {<<d>> : d \in Deviations} \cup Combined

RECURSIVE deviate(_, _, _)
\* The table with, for each deviation d of ds that is of this table, field
\* d[3] of record d[2] set to d[4].
deviate(rows, name, ds) ==
  IF Len(ds) = 0 THEN rows
  ELSE deviate(
         IF ds[1][1] = name
         THEN [i \in DOMAIN rows |->
                 IF i = ds[1][2]
                 THEN [k \in DOMAIN rows[i] |->
                         IF k = ds[1][3] THEN ds[1][4] ELSE rows[i][k]]
                 ELSE rows[i]]
         ELSE rows,
         name, Tail(ds))


(***************************************************************************)
(* The state: the staging tables, the world of the checkout functions,     *)
(* and the command that is running.                                        *)
(***************************************************************************)
VARIABLES
  sCurrency,      \* hq_stage Currency: id -> record
  sExchangeRate,  \* hq_stage ExchangeRate: id -> record
  sOffer,         \* hq_stage Offer: id -> record
  sBatch,         \* hq_stage Batch: id -> [id, processed]
  world,          \* warehouse tables, CURRENCY, FOREX, CURRENCY_USD
  pc,             \* "idle", or the loop the command is in
  todo,           \* the staging ids the current loop has still to visit
  run,            \* the running command: its mode, batch and selection
  exit,           \* how the last command ended ("" while one is running)
  runs,           \* the number of commands started
  log,            \* the calls of print_info of the current command
  last            \* the outcome of the last checkout of the command

vars == <<sCurrency, sExchangeRate, sOffer, sBatch, world, pc, todo, run,
          exit, runs, log, last>>

\* The number of commands a behaviour runs.
MaxRuns == 3

NoCheckout ==
  [kind |-> "", id |-> 0, ret |-> None, exc |-> "", wparams |-> <<>>,
   fields_in_error |-> <<>>, inserted |-> 0]

\* The number of rows of the warehouse.
count(w) ==
  Len(w.Currency) + Len(w.Forex) + Len(w.ValidOffer) + Len(w.InvalidOffer)

\* run keeps the command that was started last and its command line, and
\* for a command that went into its loops its mode, batch, table and the
\* records it selected.
NoRun ==
  [mode |-> "", batch |-> None, table |-> "", selected |-> <<>>,
   command |-> "", argv |-> None]

\* The warehouse before anything is stored, in a process that has made no
\* call yet.
Empty ==
  [Currency |-> <<>>, Forex |-> <<>>, ValidOffer |-> <<>>,
   InvalidOffer |-> <<>>, CURRENCY |-> <<>>, FOREX |-> <<>>,
   CURRENCY_USD |-> None, forex_calls |-> 0, forex_queries |-> 0,
   asked |-> None, got |-> None, lookups |-> 0]

\* The module-level caches of a process that has just started.
new_process(w) ==
  [w EXCEPT !.CURRENCY = <<>>, !.FOREX = <<>>, !.CURRENCY_USD = None,
            !.forex_calls = 0, !.forex_queries = 0, !.asked = None,
            !.got = None, !.lookups = 0]

Init ==
  /\ \E ds \in Scenarios :
       /\ sCurrency = deviate(CleanCurrency, "currency", ds)
       /\ sExchangeRate = deviate(CleanExchangeRate, "forex", ds)
       /\ sOffer = deviate(CleanOffer, "offer", ds)
  /\ sBatch = [b \in Batches |-> [id |-> b, processed |-> FALSE]]
  /\ world = Empty
  /\ pc = "idle"
  /\ todo = <<>>
  /\ run = NoRun
  /\ exit = ""
  /\ runs = 0
  /\ log = <<>>
  /\ last = NoCheckout

RECURSIVE in_order(_)
\* The ids of a set in increasing order: the order in which a query set
\* without an ordering yields the rows of a table.
in_order(ids) ==
  IF ids = {} THEN <<>>
  ELSE <<CHOOSE i \in ids : \A j \in ids : i <= j>>
         \o in_order(ids \ {CHOOSE i \in ids : \A j \in ids : i <= j})

\* batch.currency_set.all(), batch.exchangerate_set.all(), batch.offer_set.all()
batch_set(rows, b) == in_order({i \in DOMAIN rows : rows[i].batch = b})

\* objects.filter(in_error=True, ignore=False)
error_set(rows) ==
  in_order({i \in DOMAIN rows : rows[i].in_error /\ ~rows[i].ignore})

\* The loops with the offers before the exchange rates.
offers_first(at, b) ==
  CASE at = "start"    -> [pc |-> "currency", todo |-> batch_set(sCurrency, b)]
    [] at = "currency" -> [pc |-> "offer", todo |-> batch_set(sOffer, b)]
    [] at = "offer"    -> [pc |-> "forex", todo |-> batch_set(sExchangeRate, b)]
    [] at = "forex"    -> [pc |-> "finish", todo |-> <<>>]

\* The loop of checkout_batch that follows loop pc, with what it iterates.
next_loop(at, b) ==
  CASE at = "start"    -> [pc |-> "currency", todo |-> batch_set(sCurrency, b)]
    [] at = "currency" -> [pc |-> "forex", todo |-> batch_set(sExchangeRate, b)]
    [] at = "forex"    -> [pc |-> "offer", todo |-> batch_set(sOffer, b)]
    [] at = "offer"    -> [pc |-> "finish", todo |-> <<>>]

RECURSIVE enter(_, _)
\* Where checkout_batch stands after the loop at: in the first loop after
\* it that has a record to visit, or at its last two statements.
enter(at, b) ==
  LET n == next_loop(at, b)
  IN  IF n.pc = "finish" \/ Len(n.todo) > 0 THEN n ELSE enter(n.pc, b)

\* The command's position once the current record is done.
after_step ==
  IF Len(todo) > 1 THEN [pc |-> pc, todo |-> Tail(todo)]
  ELSE IF run.mode = "batch" THEN enter(pc, run.batch.id)
  ELSE [pc |-> "finish", todo |-> <<>>]


(***************************************************************************)
(* The two commands.  A command is a process of its own: it starts with    *)
(* empty caches, and an exception no function catches ends it.             *)
(***************************************************************************)
\* What the command line gives: the -b or -t option with its value, no
\* option, -h, or an option getopt does not know.
BatchArgs ==
  {[opt |-> "-b", val |-> v] : v \in {<<"1">>, <<"2">>, <<"9">>}}
    \cup {[opt |-> o, val |-> None] : o \in {"", "-h", "-x"}}

TableArgs ==
  {[opt |-> "-t", val |-> v] : v \in {"currency", "forex", "offer", "hotel"}}
    \cup {[opt |-> o, val |-> ""] : o \in {"", "-h", "-x"}}

Tables == {"currency", "forex", "offer"}

\* The exit codes with 1 for a command line getopt does not accept.
fatal_parse_1(argv, known) ==
  CASE argv.opt = "-x" -> "1"
    [] argv.opt = "-h" -> "0"
    [] argv.opt = ""   -> "1"
    [] OTHER           -> IF known THEN "" ELSE "1"

\* The exit code of a command that stops before its loops, "" if it goes on.
fatal(argv, known) ==
  CASE argv.opt = "-x" -> "2"
    [] argv.opt = "-h" -> "0"
    [] argv.opt = ""   -> "1"
    [] OTHER           -> IF known THEN "" ELSE "1"

pairs(kind, ids) == [n \in 1..Len(ids) |-> <<kind, ids[n]>>]

Begin(code, at, selected, mode, batch, tab, argv) ==
  /\ runs' = runs + 1
  /\ world' = new_process(world)
  /\ log' = <<>>
  /\ last' = NoCheckout
  /\ exit' = code
  /\ pc' = IF code = "" THEN at.pc ELSE "idle"
  /\ todo' = IF code = "" THEN at.todo ELSE <<>>
  /\ run' = IF code = ""
            THEN [mode |-> mode, batch |-> batch, table |-> tab,
                  selected |-> selected, command |-> mode, argv |-> argv]
            ELSE [NoRun EXCEPT !.command = mode, !.argv = argv]
  /\ UNCHANGED <<sCurrency, sExchangeRate, sOffer, sBatch>>

checkout_batch(argv) ==
  /\ pc = "idle"
  /\ runs < MaxRuns
  /\ LET known == argv.opt = "-b" /\ int(argv.val) \in DOMAIN sBatch
         b     == IF known THEN int(argv.val) ELSE 0
     IN  Begin(fatal(argv, known), enter("start", b),
               pairs("currency", batch_set(sCurrency, b))
                 \o pairs("forex", batch_set(sExchangeRate, b))
                 \o pairs("offer", batch_set(sOffer, b)),
               "batch", IF known THEN sBatch[b] ELSE None, "", argv)

staging(tab) ==
  CASE tab = "currency" -> sCurrency
    [] tab = "forex"    -> sExchangeRate
    [] tab = "offer"    -> sOffer

checkout_table(argv) ==
  /\ pc = "idle"
  /\ runs < MaxRuns
  /\ LET known == argv.opt = "-t" /\ argv.val \in Tables
         qs    == IF known THEN error_set(staging(argv.val)) ELSE <<>>
     IN  Begin(fatal(argv, known),
               IF Len(qs) > 0 THEN [pc |-> argv.val, todo |-> qs]
                              ELSE [pc |-> "finish", todo |-> <<>>],
               IF known THEN pairs(argv.val, qs) ELSE <<>>,
               "table", None, IF known THEN argv.val ELSE "", argv)

\* One turn of a loop: the checkout of the record, then print_info; an
\* exception of the checkout ends the command there.  last keeps what the
\* checkout returned and raised, its parameters and failed fields, and
\* the number of rows it added to the warehouse.
Step(kind, out) ==
  /\ last' = [kind |-> kind, id |-> Head(todo), ret |-> out.ret,
              exc |-> out.exc, wparams |-> out.wparams,
              fields_in_error |-> out.fields_in_error,
              inserted |-> count(out.w) - count(world)]
  /\ world' = out.w
  /\ IF out.exc # ""
     THEN /\ pc' = "idle"
          /\ exit' = out.exc
          /\ UNCHANGED <<todo, log>>
     ELSE /\ pc' = after_step.pc
          /\ todo' = after_step.todo
          /\ log' = Append(log, [kind |-> kind, id |-> Head(todo),
                                 ok |-> out.ret # None])
          /\ UNCHANGED exit
  /\ UNCHANGED <<sBatch, run, runs>>

\* The world at the start of a call: no forex lookup and no lookup of a
\* duplicate made yet.
at_call(w) ==
  [w EXCEPT !.forex_calls = 0, !.forex_queries = 0, !.asked = None,
            !.got = None, !.lookups = 0]

CheckoutCurrency ==
  /\ pc = "currency"
  /\ LET out == checkout_currency(sCurrency[Head(todo)], run.batch, at_call(world))
     IN  /\ Step("currency", out)
         /\ sCurrency' = [sCurrency EXCEPT ![Head(todo)] = out.sobj]
  /\ UNCHANGED <<sExchangeRate, sOffer>>

CheckoutForex ==
  /\ pc = "forex"
  /\ LET out == checkout_forex(sExchangeRate[Head(todo)], run.batch, at_call(world))
     IN  /\ Step("forex", out)
         /\ sExchangeRate' = [sExchangeRate EXCEPT ![Head(todo)] = out.sobj]
  /\ UNCHANGED <<sCurrency, sOffer>>

CheckoutOffer(tie) ==
  /\ pc = "offer"
  /\ LET out == checkout_offer(sOffer[Head(todo)], run.batch, at_call(world), tie)
     IN  /\ Step("offer", out)
         /\ sOffer' = [sOffer EXCEPT ![Head(todo)] = out.sobj]
  /\ UNCHANGED <<sCurrency, sExchangeRate>>

\* The end of the command: checkout_batch marks its batch processed.
Finish ==
  /\ pc = "finish"
  /\ pc' = "idle"
  /\ exit' = "0"
  /\ sBatch' = IF run.mode = "batch"
               THEN [sBatch EXCEPT ![run.batch.id].processed = TRUE]
               ELSE sBatch
  /\ UNCHANGED <<sCurrency, sExchangeRate, sOffer, world, todo, run, runs,
                 log, last>>

Next ==
  \/ \E argv \in BatchArgs : checkout_batch(argv)
  \/ \E argv \in TableArgs : checkout_table(argv)
  \/ CheckoutCurrency
  \/ CheckoutForex
  \/ \E tie \in {"first", "last"} : CheckoutOffer(tie)
  \/ Finish

Spec == Init /\ [][Next]_vars

(***************************************************************************)
(* save_to_warehouse on its own: the function is applied to parameters     *)
(* drawn from a small set, for a model class whose Meta declares the       *)
(* unique constraints the behaviour starts with.                           *)
(***************************************************************************)
\* The parameters of an offer: with or without the schema's names of the
\* validity columns, with or without the currency the schema requires.
WriterOffer(origin, hotel, price, named, curr) ==
  [batch_id |-> 1, origin_id |-> origin, hotel_id |-> hotel,
   breakfast_included |-> TRUE, original_price |-> float(<<"1", "0">>),
   price_usd |-> price,
   checkin_date |-> strptime_date(D2), checkout_date |-> strptime_date(D3)]
    @@ (IF named
        THEN ("valid_from" :> strptime_date(D2))
               @@ ("valid_to" :> strptime_date(D3))
        ELSE <<>>)
    @@ (IF curr
        THEN "original_currency" :> [id |-> 1, code |-> <<"E", "U", "R">>]
        ELSE <<>>)

\* A price of ten, and one with seven integer digits, which price_usd
\* (max_digits 9, decimal_places 3) cannot hold.
WriterPrices ==
  [fits |-> [type |-> "Decimal", v |-> 10 * Scale],
   over |-> [type |-> "Decimal", v |-> Pow10(PriceUsdIntDigits) * Scale]]

WriterParams ==
  {WriterOffer(1, <<"7">>, WriterPrices.fits, TRUE, TRUE),
   WriterOffer(2, <<"7">>, WriterPrices.fits, TRUE, TRUE),
   WriterOffer(3, <<"8">>, WriterPrices.fits, TRUE, TRUE),
   WriterOffer(4, <<"7">>, WriterPrices.fits, FALSE, TRUE),
   WriterOffer(5, <<"7">>, WriterPrices.fits, TRUE, FALSE),
   WriterOffer(6, <<"7">>, WriterPrices.over, TRUE, TRUE)}

\* The constraints a model class may declare (model._meta.unique_together,
\* line 122): those of the offer tables alone, or after a constraint on a
\* column the parameters never have, or after one on origin_id.
WriterConstraints ==
  {unique_together("ValidOffer"),
   << <<"code">> >> \o unique_together("ValidOffer"),
   << <<"origin_id">> >> \o unique_together("ValidOffer")}

WriterInit ==
  /\ sCurrency = CleanCurrency
  /\ sExchangeRate = CleanExchangeRate
  /\ sOffer = CleanOffer
  /\ sBatch = [b \in Batches |-> [id |-> b, processed |-> FALSE]]
  /\ world = Empty
  /\ pc = "writer"
  /\ todo = <<>>
  /\ \E u \in WriterConstraints : run = [mode |-> "writer", uniques |-> u]
  /\ exit = ""
  /\ runs = 0
  /\ log = <<>>
  /\ last = NoCheckout

\* One call of save_to_warehouse; last keeps the model and the parameters
\* of the call, what it returned and raised, and the rows it added.
Save(model, wparams) ==
  /\ pc = "writer"
  /\ runs < MaxRuns
  /\ LET out == save_with(model, run.uniques, wparams, at_call(world))
     IN  /\ world' = out.w
         /\ last' = [kind |-> "save", id |-> 0, ret |-> out.ret,
                     exc |-> out.exc, wparams |-> wparams,
                     fields_in_error |-> <<>>,
                     inserted |-> count(out.w) - count(world),
                     model |-> model]
  /\ runs' = runs + 1
  /\ UNCHANGED <<sCurrency, sExchangeRate, sOffer, sBatch, pc, todo, run,
                 exit, log>>

WriterNext ==
  \E model \in {"ValidOffer", "InvalidOffer"} :
    \E wparams \in WriterParams : Save(model, wparams)

WriterSpec == WriterInit /\ [][WriterNext]_vars


(***************************************************************************)
(* Two commands at once.  Each process has its own caches; the store and   *)
(* the staging area are shared.  A checkout is cut where it talks to the   *)
(* store: after the fields are validated, after the save() of the row,        *)
(* after the lookup of a duplicate, and at the save of the staging record. *)
(***************************************************************************)
\* The caches of a process, put into the shared store and taken out of it.
caches(w) ==
  [CURRENCY |-> w.CURRENCY, FOREX |-> w.FOREX, CURRENCY_USD |-> w.CURRENCY_USD]

with_caches(w, c) ==
  [w EXCEPT !.CURRENCY = c.CURRENCY, !.FOREX = c.FOREX,
            !.CURRENCY_USD = c.CURRENCY_USD]

\* The store after `hqw-checkout-batch -b 1` has loaded the three
\* currencies and the two exchange rates of the clean batch 1.
LoadedCurrency(n, w) ==
  checkout_currency(CleanCurrency[n], [id |-> 1, processed |-> FALSE], w)

LoadedForex(n, w) ==
  checkout_forex(CleanExchangeRate[n], [id |-> 1, processed |-> FALSE], w)

Loaded ==
  new_process(
    LoadedForex(2, LoadedForex(1,
      LoadedCurrency(3, LoadedCurrency(2, LoadedCurrency(1, Empty).w).w).w).w).w)

\* What the two processes check out: two currencies with one code, one
\* currency twice, two different currencies; two offers of one hotel and
\* stay for one table and for the two tables, one offer twice, two
\* different offers.
ConcurrentCases ==
  {[kind |-> "currency", ids |-> <<1, 2>>,
    ds |-> << <<"currency", 2, "currency_code", <<"U", "S", "D">> >> >>],
   [kind |-> "currency", ids |-> <<1, 1>>, ds |-> <<>>],
   [kind |-> "currency", ids |-> <<1, 2>>, ds |-> <<>>],
   [kind |-> "offer", ids |-> <<1, 2>>,
    ds |-> << <<"offer", 2, "hotel_id", <<"7">> >>,
              <<"offer", 2, "checkin_date", D2>>,
              <<"offer", 2, "valid_offer_flag", <<"1">> >> >>],
   [kind |-> "offer", ids |-> <<1, 2>>,
    ds |-> << <<"offer", 2, "hotel_id", <<"7">> >>,
              <<"offer", 2, "checkin_date", D2>> >>],
   [kind |-> "offer", ids |-> <<1, 1>>, ds |-> <<>>],
   [kind |-> "offer", ids |-> <<1, 2>>, ds |-> <<>>]}

\* A process about to check out the staging record id.
Process(id) ==
  [at |-> "validate", id |-> id, cache |-> caches(Empty), model |-> "",
   wparams |-> <<>>, fields_in_error |-> <<>>, saved |-> None]

ConcurrentInit ==
  /\ \E c \in ConcurrentCases :
       /\ sCurrency = IF c.kind = "offer"
                      THEN [n \in 1..3 |-> LoadedCurrency(n, Empty).sobj]
                      ELSE deviate(CleanCurrency, "currency", c.ds)
       /\ sExchangeRate = IF c.kind = "offer"
                          THEN [n \in 1..2 |-> LoadedForex(n, Loaded).sobj]
                          ELSE CleanExchangeRate
       /\ sOffer = deviate(CleanOffer, "offer", c.ds)
       /\ world = IF c.kind = "offer" THEN Loaded ELSE Empty
       /\ run = [mode |-> "concurrent", kind |-> c.kind,
                 procs |-> <<Process(c.ids[1]), Process(c.ids[2])>>]
  /\ sBatch = [b \in Batches |-> [id |-> b, processed |-> FALSE]]
  /\ pc = "concurrent"
  /\ todo = <<>>
  /\ exit = ""
  /\ runs = 0
  /\ log = <<>>
  /\ last = NoCheckout

\* Lines 264-281 and 346-460: the fields of the record, validated.
validated_currency(sobj, w) ==
  Parsed(currency_params(sobj, sBatch[sobj.batch],
                         match_pass(sobj.currency_code, "code"),
                         match_pass(sobj.currency_name, "alnum")),
         failed(<<>>,
           << <<"currency_code", match_pass(sobj.currency_code, "code") # None>>,
              <<"currency_name",
                match_pass(sobj.currency_name, "alnum") # None>> >>),
         w, "")

validated_offer(f, tie) ==
  IF f.exc # "" THEN f
  ELSE offer_price(f.wparams, f.fields_in_error, f.w, tie)

\* Lines 467-476: the model and the parameters of the offer.
destined(sobj, v) ==
  IF v.exc # "" THEN v
  ELSE IF offer_model(sobj) = Unbound
       THEN [v EXCEPT !.exc = "UnboundLocalError"]
       ELSE IF offer_model(sobj) = "ValidOffer"
            THEN [v EXCEPT !.wparams = @ @@ ("invalid" :> FALSE)]
            ELSE v

\* The process with the outcome of the validation: on its way to save(),
\* to the save of the staging record when a field failed, or over.
validated_process(proc, model, v) ==
  [proc EXCEPT !.cache = caches(v.w),
               !.model = model,
               !.wparams = v.wparams,
               !.fields_in_error = v.fields_in_error,
               !.at = IF v.exc # "" THEN "crashed"
                      ELSE IF Len(v.fields_in_error) > 0 THEN "finalise"
                      ELSE "insert"]

Validate(p, tie) ==
  /\ pc = "concurrent"
  /\ run.procs[p].at = "validate"
  /\ run' = [run EXCEPT !.procs[p] =
               IF run.kind = "currency"
               THEN validated_process(@, "Currency",
                      validated_currency(sCurrency[@.id],
                                         with_caches(world, @.cache)))
               ELSE validated_process(@,
                      offer_model(sOffer[@.id]),
                      destined(sOffer[@.id],
                        validated_offer(
                          offer_fields(sOffer[@.id], sBatch[sOffer[@.id].batch],
                                       with_caches(world, @.cache)),
                          tie)))]
  /\ UNCHANGED <<sCurrency, sExchangeRate, sOffer, sBatch, world, pc, todo,
                 exit, runs, log, last>>

\* Lines 98-112: the save() of the row.
Insert(p) ==
  /\ pc = "concurrent"
  /\ run.procs[p].at = "insert"
  /\ IF overflows(run.procs[p].model, run.procs[p].wparams)
     THEN /\ run' = [run EXCEPT !.procs[p].at = "finalise"]
          /\ UNCHANGED world
     ELSE IF /\ required(run.procs[p].model) \subseteq DOMAIN run.procs[p].wparams
             /\ ~conflicts(run.procs[p].model, run.procs[p].wparams,
                           table(world, run.procs[p].model))
          THEN /\ world' = with_table(world, run.procs[p].model,
                             Append(table(world, run.procs[p].model),
                                    stored(run.procs[p].wparams,
                                           Len(table(world, run.procs[p].model)) + 1)))
               /\ run' = [run EXCEPT
                            !.procs[p].at = "finalise",
                            !.procs[p].saved =
                              fresh(run.procs[p].wparams,
                                    Len(table(world, run.procs[p].model)) + 1)]
          ELSE /\ run' = [run EXCEPT !.procs[p].at = "lookup"]
               /\ UNCHANGED world
  /\ UNCHANGED <<sCurrency, sExchangeRate, sOffer, sBatch, pc, todo, exit,
                 runs, log, last>>

\* Lines 121-137: the lookup of the row the insert ran into.
looked_up(proc, found) ==
  [proc EXCEPT !.saved = found.ret,
               !.at = IF found.exc # "" THEN "crashed" ELSE "finalise"]

Lookup(p) ==
  /\ pc = "concurrent"
  /\ run.procs[p].at = "lookup"
  /\ run' = [run EXCEPT !.procs[p] =
               looked_up(@, dedup_lookup(@.model, @.wparams, world,
                                         unique_together(@.model)
                                           \o unique_fields(@.model)))]
  /\ UNCHANGED <<sCurrency, sExchangeRate, sOffer, sBatch, world, pc, todo,
                 exit, runs, log, last>>

\* Lines 143-156 and the callers' `if wobj`: the status of the staging
\* record is saved and the row goes into the cache.
final_status(sobj, proc) ==
  IF Len(proc.fields_in_error) > 0 THEN stage_error(sobj, proc.fields_in_error)
  ELSE saved_status(sobj, Ret(proc.saved, world), proc.fields_in_error).sobj

Finalise(p) ==
  /\ pc = "concurrent"
  /\ run.procs[p].at = "finalise"
  /\ IF run.kind = "currency"
     THEN /\ sCurrency' = [sCurrency EXCEPT ![run.procs[p].id] =
                             final_status(@, run.procs[p])]
          /\ UNCHANGED sOffer
     ELSE /\ sOffer' = [sOffer EXCEPT ![run.procs[p].id] =
                          final_status(@, run.procs[p])]
          /\ UNCHANGED sCurrency
  /\ run' = [run EXCEPT
               !.procs[p].at = "done",
               !.procs[p].cache =
                 IF run.kind = "currency" /\ run.procs[p].saved # None
                 THEN caches(add_currency_cache(run.procs[p].saved,
                                                with_caches(world, @)))
                 ELSE @]
  /\ UNCHANGED <<sExchangeRate, sBatch, world, pc, todo, exit, runs, log, last>>

ConcurrentNext ==
  \E p \in {1, 2} :
    \/ \E tie \in {"first", "last"} : Validate(p, tie)
    \/ Insert(p)
    \/ Lookup(p)
    \/ Finalise(p)

ConcurrentSpec == ConcurrentInit /\ [][ConcurrentNext]_vars

(***************************************************************************)
(* Properties of the checkouts                                             *)
(***************************************************************************)
\* The staging record the command is about to check out.
current == staging(pc)[Head(todo)]

\* The command is about to check out a record that an earlier checkout
\* has processed without error.
Recheck == pc \in Tables /\ current.processed /\ ~current.in_error

\* C1: the checkout of a staging record that an earlier checkout processed
\* without error ends normally, returns a warehouse row (the outcome is
\* not Rejected) and leaves the number of rows of every warehouse table
\* as it was.
C1_Idempotent ==
  [][Recheck => /\ last'.exc = ""
                /\ last'.ret # None
                /\ last'.inserted = 0]_vars

\* C2: no two rows of the warehouse table Currency have the same code.
C2_UniqueCode ==
  \A i, j \in DOMAIN world.Currency :
    world.Currency[i].code = world.Currency[j].code => i = j

\* The key the last checkout asked get_forex for: its parts, its date,
\* the stored rows of its pair of currencies and those of its date.
Asked == split(world.asked, ":")

AskedDate == strptime_date(Asked[3])

Pair ==
  matching(world.Forex, [currency_from |-> int(Asked[1]),
                         currency_to |-> int(Asked[2])])

Exact == {i \in Pair : world.Forex[i].date_valid = AskedDate}

\* The last checkout called get_forex and the cache did not hold the key.
Missed == world.asked # None /\ world.forex_queries > 0

\* C3 as the specification states it: when the cache misses and the store
\* has no row of exactly the key, get_forex returns the stored row of the
\* pair with the greatest date_valid that is not later than the date asked
\* for, and nothing when there is no such row.
C3_LatestUpTo ==
  (Missed /\ Exact = {}) =>
    LET upto == {i \in Pair : world.Forex[i].date_valid <= AskedDate}
    IN  IF upto = {} THEN world.got = None
        ELSE /\ world.got \in {world.Forex[i] : i \in upto}
             /\ \A i \in upto : world.Forex[i].date_valid <= world.got.date_valid

\* C3: when the cache misses and the store has no row of exactly the key,
\* get_forex returns a stored row of the pair with the greatest date_valid
\* of all the rows of the pair, earlier or later than the date asked for,
\* and nothing when the pair has no row.
C3_LatestOfPair ==
  (Missed /\ Exact = {}) =>
    IF Pair = {} THEN world.got = None
    ELSE /\ world.got \in {world.Forex[i] : i \in Pair}
         /\ \A i \in Pair : world.Forex[i].date_valid <= world.got.date_valid

\* A lookup that missed the cache, found no row of the date asked for and
\* returned a row of a later date, with an earlier row of the pair stored.
C3_Witness ==
  /\ Missed
  /\ Exact = {}
  /\ world.got # None
  /\ world.got.date_valid > AskedDate
  /\ \E i \in Pair : world.Forex[i].date_valid < AskedDate

\* C4: when the cache misses and the store holds one row of exactly the
\* key, get_forex returns that row.
C4_ExactFirst ==
  (Missed /\ Cardinality(Exact) = 1) =>
    world.got \in {world.Forex[i] : i \in Exact}

\* C5: when get_forex returns a forex, the cache FOREX holds that forex
\* under the key asked for.
C5_CachedAsAsked ==
  (world.asked # None /\ world.got # None) =>
    /\ world.asked \in DOMAIN world.FOREX
    /\ world.FOREX[world.asked] = world.got

\* The last checkout was of an offer whose currency resolved and has the
\* code of the base currency.
UsdOffer ==
  /\ last.kind = "offer"
  /\ "original_currency" \in DOMAIN last.wparams
  /\ world.CURRENCY_USD # None
  /\ last.wparams["original_currency"].code = world.CURRENCY_USD.code

\* C6: the checkout of an offer in the base currency makes no call of
\* get_forex and no forex query.
C6_NoResolverCall ==
  UsdOffer => world.forex_calls = 0 /\ world.forex_queries = 0

\* C7: the checkout of an offer in the base currency with a valid price
\* gives the warehouse parameters a price_usd equal to original_price.
C7_UsdPrice ==
  (UsdOffer /\ "original_price" \in DOMAIN last.wparams) =>
    /\ "price_usd" \in DOMAIN last.wparams
    /\ last.wparams["price_usd"] = last.wparams["original_price"]

Composite == <<"currency_id", "selling_price", "checkin_date">>

\* Every field of a staging offer matches its pattern and converts to its
\* type; the currency, which is looked up in the warehouse, aside.
Parses(sobj) ==
  /\ match_pass(sobj.hotel_id, "digits") # None
  /\ price_ok(match_pass(sobj.selling_price, "number"))
  /\ match_pass(sobj.breakfast_included_flag, "flagdigit") # None
  /\ match_pass(sobj.checkin_date, "date") # None
  /\ match_pass(sobj.checkout_date, "date") # None
  /\ match_pass(sobj.offer_valid_from, "timestamp") # None
  /\ match_pass(sobj.offer_valid_to, "timestamp") # None
  /\ ~offer_bad_time(match_pass(sobj.checkin_date, "date"),
                     match_pass(sobj.checkout_date, "date"),
                     match_pass(sobj.offer_valid_from, "timestamp"),
                     match_pass(sobj.offer_valid_to, "timestamp"))
  /\ match_pass(sobj.valid_offer_flag, "signedint") # None

\* The last checkout was of an offer all of whose fields parse, whose
\* currency resolved and is not the base currency, and for whose key
\* neither the cache nor the store has a forex.
NoForexOffer ==
  /\ last.kind = "offer"
  /\ Parses(sOffer[last.id])
  /\ "original_currency" \in DOMAIN last.wparams
  /\ world.CURRENCY_USD # None
  /\ last.wparams["original_currency"].code # world.CURRENCY_USD.code
  /\ Missed
  /\ Pair = {}

\* C8: an offer all of whose fields parse, in a currency that resolves and
\* is not the base currency, with no forex for its key, fails on exactly
\* currency_id, selling_price and checkin_date: the checkout returns
\* nothing, the staging record is marked processed and in error with
\* those fields, and no row is written.
C8_CompositeFailure ==
  NoForexOffer =>
    /\ last.exc = ""
    /\ last.ret = None
    /\ last.fields_in_error = Composite
    /\ sOffer[last.id].processed
    /\ sOffer[last.id].in_error
    /\ sOffer[last.id].fields_in_error = join(Composite, ", ")
    /\ last.inserted = 0

\* An offer in GBP, for which no forex is stored, checked out after the
\* currencies: the lookup was made and found nothing.
C8_Witness ==
  /\ NoForexOffer
  /\ world.forex_calls = 1
  /\ world.got = None
  /\ sOffer[last.id].in_error

\* C9, for an offer all of whose fields parse and whose own currency
\* resolves: when no USD currency is cached or stored, the checkout ends
\* normally with currency_id, selling_price and checkin_date among the
\* failed fields, returns nothing and marks the staging record processed
\* and in error.
C9_NoBaseCurrency ==
  (/\ last.kind = "offer"
   /\ Parses(sOffer[last.id])
   /\ "original_currency" \in DOMAIN last.wparams
   /\ world.CURRENCY_USD = None
   /\ matching(world.Currency, [code |-> <<"U", "S", "D">>]) = {}) =>
    /\ last.exc = ""
    /\ last.ret = None
    /\ \A c \in DOMAIN Composite :
         \E n \in DOMAIN last.fields_in_error :
           last.fields_in_error[n] = Composite[c]
    /\ sOffer[last.id].processed
    /\ sOffer[last.id].in_error

\* C10: a command that went into its loops ends with exit code 0 and with
\* one outcome for each record it selected, in the order of selection.
C10_NoAbort ==
  (pc = "idle" /\ run.mode # "") =>
    /\ exit = "0"
    /\ [n \in DOMAIN log |-> <<log[n].kind, log[n].id>>] = run.selected

\* C11: a batch command that went into its loops and is over has set the
\* processed flag of its batch, whatever the outcomes of its records; and
\* while a record of the batch is still to be attempted the command has
\* not set the flag.
C11_BatchProcessed ==
  /\ (pc = "idle" /\ run.mode = "batch") => sBatch[run.batch.id].processed
  /\ (pc \in Tables /\ run.mode = "batch" /\ ~run.batch.processed) =>
       ~sBatch[run.batch.id].processed

\* The place of a kind of record in the order of the phases.
phase(kind) ==
  CASE kind = "currency" -> 1
    [] kind = "forex"    -> 2
    [] kind = "offer"    -> 3

\* The records of a kind the command has checked out so far.
logged(kind) == {log[n].id : n \in {m \in DOMAIN log : log[m].kind = kind}}

\* The records of a staging table that belong to the command's batch.
of_batch(rows) == {i \in DOMAIN rows : rows[i].batch = run.batch.id}

\* C12: in batch mode the checkouts follow the order of the phases; when
\* an exchange rate is about to be checked out every currency of the
\* batch has been, when an offer is about to be checked out every
\* currency and every exchange rate of the batch has been, and the rows
\* those checkouts wrote are in the warehouse.
C12_PhaseOrder ==
  run.mode = "batch" =>
    /\ \A i, j \in DOMAIN log :
         i < j => phase(log[i].kind) <= phase(log[j].kind)
    /\ pc \in {"forex", "offer"} => of_batch(sCurrency) \subseteq logged("currency")
    /\ pc = "offer" => of_batch(sExchangeRate) \subseteq logged("forex")
    /\ pc = "offer" =>
         \A n \in DOMAIN log :
           (log[n].ok /\ log[n].kind # "offer") =>
             \E i \in DOMAIN table(world, IF log[n].kind = "currency"
                                          THEN "Currency" ELSE "Forex") :
               table(world, IF log[n].kind = "currency"
                            THEN "Currency" ELSE "Forex")[i].origin_id = log[n].id

\* A batch whose offer is about to be checked out, with its three
\* currencies and two exchange rates checked out and stored.
C12_Witness ==
  /\ run.mode = "batch"
  /\ pc = "offer"
  /\ Cardinality(logged("currency")) = 3
  /\ Cardinality(logged("forex")) = 2
  /\ \A n \in DOMAIN log : log[n].ok

\* C13: checkout_table selects exactly the records of its table that are
\* in error and not ignored; each of its checkouts leaves every other
\* staging record and every batch as it was; and when the command is
\* over it has checked out every record it selected.
C13_SweepSelection ==
  [][/\ (pc = "idle" /\ run'.mode = "table" /\ runs' # runs) =>
          {run'.selected[n][2] : n \in DOMAIN run'.selected}
            = {i \in DOMAIN staging(run'.table) :
                 /\ staging(run'.table)[i].in_error
                 /\ ~staging(run'.table)[i].ignore}
     /\ (pc # "idle" /\ run.mode = "table") =>
          /\ sBatch' = sBatch
          /\ \A i \in DOMAIN sCurrency :
               (pc # "currency" \/ i # Head(todo)) => sCurrency'[i] = sCurrency[i]
          /\ \A i \in DOMAIN sExchangeRate :
               (pc # "forex" \/ i # Head(todo)) =>
                 sExchangeRate'[i] = sExchangeRate[i]
          /\ \A i \in DOMAIN sOffer :
               (pc # "offer" \/ i # Head(todo)) => sOffer'[i] = sOffer[i]
     /\ (pc' = "idle" /\ run'.mode = "table") =>
          [n \in DOMAIN log' |-> <<log'[n].kind, log'[n].id>>] = run'.selected
    ]_vars

\* C14: a checkout that found a field in error writes no row and returns
\* nothing, and leaves the staging record processed and in error with
\* the names of the failed fields joined in the order of detection.
C14_FailedNotWritten ==
  (last.kind \in Tables /\ last.fields_in_error # <<>>) =>
    /\ last.inserted = 0
    /\ last.ret = None
    /\ staging(last.kind)[last.id].in_error
    /\ staging(last.kind)[last.id].processed
    /\ staging(last.kind)[last.id].fields_in_error
         = join(last.fields_in_error, ", ")

Saved == last.kind = "save"

\* The parameters of the last call have every field of the constraint.
present(c) == \A n \in DOMAIN c : c[n] \in DOMAIN last.wparams

\* The rows of the table of the last call that have the values of the
\* parameters in every field of the constraint.
hits(c) ==
  {i \in DOMAIN table(world, last.model) :
     \A n \in DOMAIN c :
       /\ c[n] \in DOMAIN last.wparams
       /\ c[n] \in DOMAIN table(world, last.model)[i]
       /\ table(world, last.model)[i][c[n]]
            = to_store(c[n], last.wparams[c[n]])}

\* The parameters of the last call lack a column the schema requires.
Incomplete ==
  /\ ~overflows(last.model, last.wparams)
  /\ ~(required(last.model) \subseteq DOMAIN last.wparams)

Conflict ==
  /\ Saved
  /\ ~overflows(last.model, last.wparams)
  /\ required(last.model) \subseteq DOMAIN last.wparams
  /\ last.inserted = 0
  /\ breaks(run.uniques, last.wparams, table(world, last.model))

\* The constraints, in the declared order, whose fields the parameters
\* have and for which a row exists.
Matched == {c \in DOMAIN run.uniques :
              present(run.uniques[c]) /\ hits(run.uniques[c]) # {}}

\* The constraints at which the loop can end: a field is missing or a
\* row exists.
Decisive == {c \in DOMAIN run.uniques :
               ~present(run.uniques[c]) \/ hits(run.uniques[c]) # {}}

least(S) == CHOOSE c \in S : \A d \in S : c <= d

Destination ==
  IF -1 = int(match_pass(sOffer[last.id].valid_offer_flag, "signedint"))
  THEN "InvalidOffer" ELSE "ValidOffer"

Other == IF Destination = "ValidOffer" THEN "InvalidOffer" ELSE "ValidOffer"

\* The last checkout was of an offer whose flag parses.
Destined ==
  /\ last.kind = "offer"
  /\ match_pass(sOffer[last.id].valid_offer_flag, "signedint") # None

\* The rows of a table with the hotel, breakfast flag, check-in and
\* check-out of the last checkout's parameters.
same_stay(rows) ==
  {i \in DOMAIN rows :
     \A k \in {"hotel_id", "breakfast_included", "checkin_date",
               "checkout_date"} :
       /\ k \in DOMAIN last.wparams
       /\ k \in DOMAIN rows[i]
       /\ rows[i][k] = to_store(k, last.wparams[k])}

C19_FirstSeenWins ==
  [][/\ (pc \in Tables /\ world.CURRENCY_USD # None) =>
          world'.CURRENCY_USD = world.CURRENCY_USD
     /\ world'.CURRENCY_USD # None =>
          world'.CURRENCY_USD.code = <<"U", "S", "D">>
    ]_vars

\* The base currency is set and the cache holds another currency with the
\* code USD, which was cached after it within the same command.
C19_Witness ==
  /\ pc \in Tables
  /\ world.CURRENCY_USD # None
  /\ last.kind = "currency"
  /\ last.ret # None
  /\ last.ret.code = <<"U", "S", "D">>
  /\ last.ret.id # world.CURRENCY_USD.id
  /\ last.ret.id \in DOMAIN world.CURRENCY

(***************************************************************************)
(* Properties of the commands' fatal errors                                *)
(***************************************************************************)
\* The exit code the command line of a batch command or of a sweep calls
\* for when the command must stop before its loops, "" otherwise.
batch_code(argv) ==
  CASE argv.opt = "-x" -> "2"
    [] argv.opt = "-h" -> "0"
    [] argv.opt = ""   -> "1"
    [] OTHER           -> IF int(argv.val) \in DOMAIN sBatch THEN "" ELSE "1"

table_code(argv) ==
  CASE argv.opt = "-x" -> "2"
    [] argv.opt = "-h" -> "0"
    [] argv.opt = ""   -> "1"
    [] OTHER           -> IF argv.val \in {"currency", "forex", "offer"}
                          THEN "" ELSE "1"

\* The step has started a command that is over at once with this code,
\* and no staging record, batch, warehouse row or cache entry has changed:
\* the caches of the new process are empty and it made no checkout.
StoppedWith(code) ==
  /\ exit' = code
  /\ pc' = "idle"
  /\ sCurrency' = sCurrency
  /\ sExchangeRate' = sExchangeRate
  /\ sOffer' = sOffer
  /\ sBatch' = sBatch
  /\ world'.Currency = world.Currency
  /\ world'.Forex = world.Forex
  /\ world'.ValidOffer = world.ValidOffer
  /\ world'.InvalidOffer = world.InvalidOffer
  /\ world'.CURRENCY = <<>>
  /\ world'.FOREX = <<>>
  /\ world'.CURRENCY_USD = None
  /\ log' = <<>>
  /\ last'.kind = ""

\* C20: a batch command without a batch id or with the id of no batch,
\* and a sweep without a table name or with an unknown one, exit with
\* code 1; help exits with 0 and a command line that does not parse with
\* 2; in each case no staging record, batch, warehouse row or cache entry
\* changes and no record is checked out.
C20_FatalNoWork ==
  [][/\ (pc = "idle" /\ runs' # runs /\ run'.command = "batch") =>
          \A argv \in BatchArgs :
            (run'.argv = argv /\ batch_code(argv) # "") =>
              StoppedWith(batch_code(argv))
     /\ (pc = "idle" /\ runs' # runs /\ run'.command = "table") =>
          \A argv \in TableArgs :
            (run'.argv = argv /\ table_code(argv) # "") =>
              StoppedWith(table_code(argv))
    ]_vars

\* A batch command for a batch that does not exist has ended with code 1
\* in a warehouse that an earlier command has filled.
C20_Witness ==
  /\ pc = "idle"
  /\ run.command = "batch"
  /\ run.argv.opt = "-b"
  /\ int(run.argv.val) \notin DOMAIN sBatch
  /\ exit = "1"
  /\ count(world) > 0
  /\ \E b \in DOMAIN sBatch : sBatch[b].processed

(***************************************************************************)
(* Properties of the validation and of the staging records' status         *)
(***************************************************************************)
\* The text matches ^[A-Z]{3}$ as re.search reads it: three capitals,
\* then the end of the text or one newline that ends it.
MatchesCode(s) ==
  /\ Len(s) \in {3, 4}
  /\ \A n \in 1..3 : s[n] \in Upper
  /\ Len(s) = 4 => s[4] = "\n"

\* The name is in the list of failed fields of the last checkout.
Failed(name) ==
  \E n \in DOMAIN last.fields_in_error : last.fields_in_error[n] = name

\* C21: the checkout of a staging currency whose code does not match
\* ^[A-Z]{3}$ has currency_code among its failed fields, returns nothing
\* and writes no row, whether the name of the currency is valid or not.
C21_CodeChecked ==
  (last.kind = "currency" /\ ~MatchesCode(sCurrency[last.id].currency_code)) =>
    /\ Failed("currency_code")
    /\ last.ret = None
    /\ last.inserted = 0

\* A currency with a code in small letters and a name without a letter or
\* digit: both fields failed.
C21_Witness ==
  /\ last.kind = "currency"
  /\ ~MatchesCode(sCurrency[last.id].currency_code)
  /\ last.fields_in_error = <<"currency_code", "currency_name">>
  /\ sCurrency[last.id].in_error

\* The last checkout found no field in error, ended normally and returned
\* nothing: save_to_warehouse turned the row down.
TurnedDown ==
  /\ last.kind \in Tables
  /\ last.exc = ""
  /\ last.fields_in_error = <<>>
  /\ last.ret = None

\* C22: when no field is in error and save_to_warehouse returns nothing,
\* the checkout returns nothing and writes no row, the staging record is
\* processed and in error with the text 'Validation Errors' for its
\* failed fields, and the step that checks out an exchange rate leaves
\* the cache FOREX as it was, as the one that checks out a currency
\* leaves the cache CURRENCY.
C22_RejectionRecorded ==
  [][(/\ last'.kind \in Tables
      /\ last'.exc = ""
      /\ last'.fields_in_error = <<>>
      /\ last'.ret = None
      /\ pc \in Tables) =>
       LET record == CASE last'.kind = "currency" -> sCurrency'[last'.id]
                       [] last'.kind = "forex"    -> sExchangeRate'[last'.id]
                       [] last'.kind = "offer"    -> sOffer'[last'.id]
       IN  /\ last'.inserted = 0
           /\ world'.Currency = world.Currency
           /\ world'.Forex = world.Forex
           /\ world'.ValidOffer = world.ValidOffer
           /\ world'.InvalidOffer = world.InvalidOffer
           /\ record.in_error
           /\ record.processed
           /\ record.fields_in_error = <<"Validation Errors">>
           /\ last'.kind = "forex" => world'.FOREX = world.FOREX
           /\ last'.kind = "currency" => world'.CURRENCY = world.CURRENCY
    ]_vars

\* An exchange rate whose fields all validate and whose rate does not fit
\* the column was turned down and marked with the generic text.
C22_Witness ==
  /\ TurnedDown
  /\ last.kind = "forex"
  /\ last.inserted = 0
  /\ sExchangeRate[last.id].in_error
  /\ sExchangeRate[last.id].fields_in_error = <<"Validation Errors">>

(***************************************************************************)
(* Properties of the caches                                                *)
(***************************************************************************)
\* The rows of a warehouse table.
rows_of(model) == {table(world, model)[i] : i \in DOMAIN table(world, model)}

C24_NoEviction ==
  [][/\ pc \in Tables =>
          \A k \in DOMAIN world.CURRENCY :
            /\ k \in DOMAIN world'.CURRENCY
            /\ world'.CURRENCY[k].id = world.CURRENCY[k].id
     /\ pc \in Tables =>
          \A key \in DOMAIN world.FOREX :
            /\ key \in DOMAIN world'.FOREX
            /\ world'.FOREX[key].id = world.FOREX[key].id
    ]_vars
(***************************************************************************)
(* Properties of the warehouse tables                                      *)
(***************************************************************************)
\* C25: the checkout of an offer, whatever the offer and the outcome,
\* leaves the warehouse tables Currency and Forex as they were; it keeps
\* the rows of the two offer tables and adds at most one row to them.
C25_OfferReadsDimensions ==
  [][pc = "offer" =>
       (/\ world'.Currency = world.Currency
        /\ world'.Forex = world.Forex
        /\ Len(world'.ValidOffer) >= Len(world.ValidOffer)
        /\ Len(world'.InvalidOffer) >= Len(world.InvalidOffer)
        /\ SubSeq(world'.ValidOffer, 1, Len(world.ValidOffer)) = world.ValidOffer
        /\ SubSeq(world'.InvalidOffer, 1, Len(world.InvalidOffer))
             = world.InvalidOffer
        /\ Len(world'.ValidOffer) + Len(world'.InvalidOffer)
             <= Len(world.ValidOffer) + Len(world.InvalidOffer) + 1)
    ]_vars

\* An offer was written after its currency and its forex were read from
\* the store into the caches.
C25_Witness ==
  /\ last.kind = "offer"
  /\ last.inserted = 1
  /\ world.forex_queries > 0
  /\ world.FOREX # <<>>
  /\ world.CURRENCY # <<>>
  /\ Len(world.Forex) > 0

(***************************************************************************)
(* Properties of two commands at once                                      *)
(***************************************************************************)
\* Both processes are over and neither was ended by an exception.
BothDone == run.mode = "concurrent" /\ \A p \in {1, 2} : run.procs[p].at = "done"

\* The key that makes two records one fact: the code of a currency; the
\* hotel, breakfast flag, check-in and check-out of an offer.
FactKey == IF run.kind = "currency" THEN {"code"}
           ELSE {"hotel_id", "breakfast_included", "checkin_date",
                 "checkout_date"}

\* The two processes checked out the same fact for the same table, with
\* no field in error.
SameFact ==
  /\ BothDone
  /\ run.procs[1].model = run.procs[2].model
  /\ \A p \in {1, 2} : run.procs[p].fields_in_error = <<>>
  /\ \A k \in FactKey :
       /\ k \in DOMAIN run.procs[1].wparams
       /\ k \in DOMAIN run.procs[2].wparams
       /\ run.procs[1].wparams[k] = run.procs[2].wparams[k]

\* The staging record of a process.
staged(p) ==
  IF run.kind = "currency" THEN sCurrency[run.procs[p].id]
  ELSE sOffer[run.procs[p].id]

\* C26: when two processes, each with its own caches, have checked out
\* the same fact, in whatever order their inserts and lookups came, the
\* destination table has exactly one row with the key of the fact and
\* neither staging record is in error.
C26_ConcurrentDedup ==
  SameFact =>
    /\ Cardinality({i \in DOMAIN table(world, run.procs[1].model) :
                      \A k \in FactKey :
                        table(world, run.procs[1].model)[i][k]
                          = to_store(k, run.procs[1].wparams[k])}) = 1
    /\ \A p \in {1, 2} : ~staged(p).in_error

\* The text of a currency field is the id of a row of the warehouse table
\* Currency.
Resolves(text) ==
  /\ match_pass(text, "digits") # None
  /\ int(match_pass(text, "digits")) \in DOMAIN world.Currency

\* C27: the checkout of an exchange rate whose primary or secondary
\* currency id is not that of a stored currency has the field among its
\* failed fields and writes no row; a checkout that writes a Forex row
\* had both ids resolved; and every row of Forex and of the two offer
\* tables refers to currencies that are rows of Currency.
C27_ReferencesResolve ==
  /\ last.kind = "forex" =>
       /\ ~Resolves(sExchangeRate[last.id].primary_currency_id) =>
            Failed("primary_currency_id") /\ last.inserted = 0
       /\ ~Resolves(sExchangeRate[last.id].secondary_currency_id) =>
            Failed("secondary_currency_id") /\ last.inserted = 0
       /\ last.inserted = 1 =>
            /\ Resolves(sExchangeRate[last.id].primary_currency_id)
            /\ Resolves(sExchangeRate[last.id].secondary_currency_id)
            /\ world.Forex[Len(world.Forex)].currency_from
                 = int(match_pass(sExchangeRate[last.id].primary_currency_id,
                                  "digits"))
            /\ world.Forex[Len(world.Forex)].currency_to
                 = int(match_pass(sExchangeRate[last.id].secondary_currency_id,
                                  "digits"))
  /\ \A i \in DOMAIN world.Forex :
       /\ world.Forex[i].currency_from \in DOMAIN world.Currency
       /\ world.Forex[i].currency_to \in DOMAIN world.Currency
  /\ \A i \in DOMAIN world.ValidOffer :
       world.ValidOffer[i].original_currency \in DOMAIN world.Currency
  /\ \A i \in DOMAIN world.InvalidOffer :
       world.InvalidOffer[i].original_currency \in DOMAIN world.Currency

\* An exchange rate whose primary currency id is a number of no stored
\* currency was turned down on that field, with currencies in the store.
C27_Witness ==
  /\ last.kind = "forex"
  /\ match_pass(sExchangeRate[last.id].primary_currency_id, "digits") # None
  /\ ~Resolves(sExchangeRate[last.id].primary_currency_id)
  /\ Failed("primary_currency_id")
  /\ Len(world.Currency) > 0

(***************************************************************************)
(* Properties of the clean staging records                                 *)
(***************************************************************************)
\* The warehouse has a row for the staging record: a currency of its
\* code, an exchange rate of its two currencies and date, an offer of its
\* hotel, breakfast flag, check-in and check-out in the table its flag
\* selects.
HasCurrencyRow(sobj) ==
  /\ match_pass(sobj.currency_code, "code") # None
  /\ \E i \in DOMAIN world.Currency :
       world.Currency[i].code = match_pass(sobj.currency_code, "code")

HasForexRow(sobj) ==
  /\ match_pass(sobj.primary_currency_id, "digits") # None
  /\ match_pass(sobj.secondary_currency_id, "digits") # None
  /\ match_pass(sobj.date_valid, "date") # None
  /\ \E i \in DOMAIN world.Forex :
       /\ world.Forex[i].currency_from
            = int(match_pass(sobj.primary_currency_id, "digits"))
       /\ world.Forex[i].currency_to
            = int(match_pass(sobj.secondary_currency_id, "digits"))
       /\ world.Forex[i].date_valid
            = strptime_date(match_pass(sobj.date_valid, "date"))

HasOfferRow(sobj) ==
  /\ Parses(sobj)
  /\ \E i \in DOMAIN table(world, offer_model(sobj)) :
       /\ table(world, offer_model(sobj))[i].hotel_id
            = int(match_pass(sobj.hotel_id, "digits"))
       /\ table(world, offer_model(sobj))[i].breakfast_included
            = (-1 # int(match_pass(sobj.breakfast_included_flag, "flagdigit")))
       /\ table(world, offer_model(sobj))[i].checkin_date
            = strptime_date(match_pass(sobj.checkin_date, "date"))
       /\ table(world, offer_model(sobj))[i].checkout_date
            = strptime_date(match_pass(sobj.checkout_date, "date"))

Clean(sobj) == sobj.processed /\ ~sobj.in_error

CleanHasRow ==
  /\ \A i \in DOMAIN sCurrency : Clean(sCurrency[i]) => HasCurrencyRow(sCurrency[i])
  /\ \A i \in DOMAIN sExchangeRate :
       Clean(sExchangeRate[i]) => HasForexRow(sExchangeRate[i])
  /\ \A i \in DOMAIN sOffer : Clean(sOffer[i]) => HasOfferRow(sOffer[i])

StaysProcessed ==
  /\ \A i \in DOMAIN sCurrency : sCurrency[i].processed => sCurrency'[i].processed
  /\ \A i \in DOMAIN sExchangeRate :
       sExchangeRate[i].processed => sExchangeRate'[i].processed
  /\ \A i \in DOMAIN sOffer : sOffer[i].processed => sOffer'[i].processed

\* C28: in every state a staging record that is processed and not in
\* error has a row with its key in its warehouse table, and no step sets
\* the processed flag of a staging record back to false.
C28_CleanAgainstRow == []CleanHasRow /\ [][StaysProcessed]_vars

\* An offer that was in error was checked out again by a sweep, written
\* and marked clean.
C28_Witness ==
  /\ run.mode = "table"
  /\ last.kind = "offer"
  /\ last.inserted = 1
  /\ Clean(sOffer[last.id])
  /\ HasOfferRow(sOffer[last.id])

====================================================================
